---------------------------- MODULE Spec2Model ----------------------------
(***************************************************************************)
(* A model of muslimkit's hand-written HTTPS client                        *)
(* (src/src/network/connection.c): the get() call as a step machine over   *)
(* its resources (TLS context, socket, TLS session, request and response   *)
(* buffers), the response framer (header split, status line, chunked       *)
(* decoding) as operators over C strings, concurrent get() calls over one  *)
(* descriptor table, and the list view of src/src/presentation/uikit.c     *)
(* (motion handlers, fuzzy filter, scrolling) as an event loop.            *)
(*                                                                         *)
(* Bytes are one-character strings.  A C string is a sequence of non-NUL   *)
(* bytes whose terminator sits at index Len+1 (indices are 1-based, so the *)
(* C offset k is index k+1).  A nullable pointer is a tuple: <<>> is NULL  *)
(* and <<s>> points at s.                                                  *)
(***************************************************************************)
EXTENDS Integers, Sequences, FiniteSets, TLC

(***************************************************************************)
(* Bounds of the model.                                                    *)
(*  CHUNK_SIZE  the transfer window of the read loop.  connection.h sets   *)
(*              it to 4096; the model scales it down so that TLC can       *)
(*              enumerate every way of cutting a response into reads.      *)
(*  SizeBits    the width of size_t (64 in the build), scaled likewise.    *)
(*  MaxBody     longest raw body enumerated over BodyAlphabet.             *)
(*  MaxChunks   longest chunk list of the chunked round trip.              *)
(*  MaxChunkLen longest enumerated chunk of the round trip.                *)
(*  IntBits     the width of int (32 in the build), scaled down so that a  *)
(*              request longer than INT_MAX can be enumerated.             *)
(*  MaxItems    longest items array handed to list_filter on its own.      *)
(*  MaxQuery    longest query handed to list_filter on its own.            *)
(*  INPUT_SIZE  sizeof(input) in listview (100 in the source), scaled.     *)
(*  MaxIndex    largest magnitude of current_index followed; a page key on *)
(*              a terminal of fewer than 10 rows moves it without limit.   *)
(*  MaxSchedule longest "jadwal" array of the prayer times document.       *)
(*  MaxAllocFailures  most allocations that fail in one parse_json call.   *)
(***************************************************************************)
CHUNK_SIZE == 8
SizeBits == 20
MaxBody == 4
MaxChunks == 2
MaxChunkLen == 2
IntBits == 8
MaxItems == 3
MaxQuery == 2
INPUT_SIZE == 2
MaxIndex == 3
MaxSchedule == 2
MaxAllocFailures == 1

RADIX == 16

CR == "\r"
LF == "\n"
NUL == "NUL"
UNINIT == "uninit"

NULL == <<>>
Ptr(s) == <<s>>
Deref(p) == p[1]

Min(a, b) == IF a < b THEN a ELSE b
Max(a, b) == IF a < b THEN b ELSE a

RECURSIVE Pow2(_)
Pow2(n) == IF n = 0 THEN 1 ELSE 2 * Pow2(n - 1)

(***************************************************************************)
(* size_t arithmetic: every size_t expression of get() is reduced modulo   *)
(* 2^SizeBits.  uint8_t conversion reduces modulo 256.                     *)
(***************************************************************************)
SIZE_MOD == Pow2(SizeBits)
SizeT(n) == n % SIZE_MOD
ToUint8(n) == n % 256

(***************************************************************************)
(* C string primitives.  At(s, i) is the byte at index i of the C string   *)
(* s, the terminator included.  strstr and strchr return the index of the  *)
(* match, 0 for a NULL result.                                             *)
(***************************************************************************)
At(s, i) == IF i <= Len(s) THEN s[i] ELSE NUL

MatchAt(s, i, pat) ==
  /\ i + Len(pat) - 1 <= Len(s)
  /\ \A k \in 1..Len(pat) : s[i + k - 1] = pat[k]

RECURSIVE strstrFrom(_, _, _)
strstrFrom(s, i, pat) ==
  IF i + Len(pat) - 1 > Len(s) THEN 0
  ELSE IF MatchAt(s, i, pat) THEN i
  ELSE strstrFrom(s, i + 1, pat)

strstr(s, pat) == strstrFrom(s, 1, pat)

RECURSIVE strchr(_, _, _)
strchr(s, i, c) ==
  IF i > Len(s) THEN 0
  ELSE IF s[i] = c THEN i
  ELSE strchr(s, i + 1, c)

IsSpace(c) == c \in {" ", "\t", LF, "\f", CR}

RECURSIVE SkipSpace(_, _)
SkipSpace(s, i) == IF IsSpace(At(s, i)) THEN SkipSpace(s, i + 1) ELSE i

DigitVal(c) ==
  CASE c = "0" -> 0 [] c = "1" -> 1 [] c = "2" -> 2 [] c = "3" -> 3
    [] c = "4" -> 4 [] c = "5" -> 5 [] c = "6" -> 6 [] c = "7" -> 7
    [] c = "8" -> 8 [] c = "9" -> 9
    [] c \in {"a", "A"} -> 10 [] c \in {"b", "B"} -> 11
    [] c \in {"c", "C"} -> 12 [] c \in {"d", "D"} -> 13
    [] c \in {"e", "E"} -> 14 [] c \in {"f", "F"} -> 15
    [] OTHER -> 99

IsDigit(c, base) == DigitVal(c) < base

RECURSIVE Digits(_, _, _, _)
Digits(s, i, base, acc) ==
  IF IsDigit(At(s, i), base)
  THEN Digits(s, i + 1, base, acc * base + DigitVal(At(s, i)))
  ELSE acc

(***************************************************************************)
(* strtol(p, &endptr, base) from the byte at index i: leading white space, *)
(* an optional sign, for base 16 an optional 0x/0X that a hex digit        *)
(* follows, then the digits.  No digits give 0.  The inputs of the model   *)
(* are too short to reach the LONG_MAX clamp.                              *)
(***************************************************************************)
StrtolDigits(s, k, base) ==
  IF /\ base = 16
     /\ At(s, k) = "0"
     /\ At(s, k + 1) \in {"x", "X"}
     /\ IsDigit(At(s, k + 2), 16)
  THEN Digits(s, k + 2, base, 0)
  ELSE Digits(s, k, base, 0)

StrtolSigned(s, j, base) ==
  IF At(s, j) = "-" THEN 0 - StrtolDigits(s, j + 1, base)
  ELSE IF At(s, j) = "+" THEN StrtolDigits(s, j + 1, base)
  ELSE StrtolDigits(s, j, base)

strtol(s, i, base) == StrtolSigned(s, SkipSpace(s, i), base)

(* atoi(s): strtol in base 10 without the 0x prefix *)
atoi(s) == strtol(s, 1, 10)

CRLFCRLF == <<CR, LF, CR, LF>>
TE_CHUNKED == <<"T", "r", "a", "n", "s", "f", "e", "r", "-", "E", "n", "c", "o", "d", "i", "n", "g", ":", " ", "c", "h", "u", "n", "k", "e", "d">>

(***************************************************************************)
(* http_response_extract_header: NULL for a NULL input, for an input       *)
(* without CRLFCRLF and when malloc fails; else the bytes before the first *)
(* CRLFCRLF.                                                               *)
(***************************************************************************)
(* the header extraction without its test for a missing separator *)
http_response_extract_header_NoSeparatorTest(raw_response, mallocOk) ==
  IF raw_response = NULL THEN NULL
  ELSE LET raw == Deref(raw_response)
           body == strstr(raw, CRLFCRLF)
       IN IF ~mallocOk THEN NULL
          ELSE IF body = 0 THEN Ptr(raw)
          ELSE Ptr(SubSeq(raw, 1, body - 1))

http_response_extract_header(raw_response, mallocOk) ==
  IF raw_response = NULL THEN NULL
  ELSE LET raw == Deref(raw_response)
           body == strstr(raw, CRLFCRLF)
       IN IF body = 0 THEN NULL
          ELSE IF ~mallocOk THEN NULL
          ELSE Ptr(SubSeq(raw, 1, body - 1))

(***************************************************************************)
(* http_response_status_code: -1 for a NULL header or when the header      *)
(* holds fewer than two spaces; else atoi of the (at most 3) bytes that    *)
(* follow the first space, up to the second space.                         *)
(***************************************************************************)
http_response_status_code(header) ==
  IF header = NULL THEN -1
  ELSE LET h == Deref(header)
           space1 == strchr(h, 1, " ")
       IN IF space1 = 0 THEN -1
          ELSE LET space2 == strchr(h, space1 + 1, " ")
               IN IF space2 = 0 THEN -1
                  ELSE LET len == Min(space2 - space1 - 1, 3)
                       IN atoi(SubSeq(h, space1 + 1, space1 + len))

(***************************************************************************)
(* The chunked-decoding loop of http_response_extract_body over the body b *)
(* (a C string), from read index p with out already written.  The output  *)
(* buffer holds Len(b)+1 bytes; the terminator of b is index Len(b)+1.      *)
(* memcpy(out, p, chunk_size) reads the indices d..d+chunk_size-1 and      *)
(* writes chunk_size bytes after out; the test p[0] == '\r' after it reads *)
(* index d+chunk_size.  A read beyond the terminator or a write beyond the *)
(* buffer is undefined behaviour: the loop result records it (overread,    *)
(* overwrite) and what follows is left to the caller of the operator.      *)
(***************************************************************************)
SkipCRLFStep(b, p) == IF At(b, p) \in {CR, LF} THEN p + 1 ELSE p

RECURSIVE SkipCRLF(_, _)
SkipCRLF(b, p) ==
  IF SkipCRLFStep(b, p) = p THEN p ELSE SkipCRLF(b, SkipCRLFStep(b, p))

ChunkResult(out, p, overread, overwrite, iters) ==
  [out |-> out, p |-> p, overread |-> overread, overwrite |-> overwrite,
   iters |-> iters]

(* the index after a chunk's data: the CR LF that follows it is skipped *)
AfterChunk(b, p) ==
  IF At(b, p) = CR /\ At(b, p + 1) = LF THEN p + 2 ELSE p

(* a copy that counts the chunk's CR LF into the chunk *)
CopyLen_WithTerminator(chunk_size) == chunk_size + 2

(* the number of bytes memcpy copies for a parsed chunk size *)
CopyLen(chunk_size) == chunk_size

RECURSIVE ChunkLoop(_, _, _, _)

(* lines 233-238: the copy of n bytes from index d, then the CR LF test *)
ChunkCopy(b, d, n, out, iters) ==
  IF d + n - 1 > Len(b) + 1 \/ Len(out) + n > Len(b) + 1
  THEN ChunkResult(out, d, d + n - 1 > Len(b) + 1,
                   Len(out) + n > Len(b) + 1, iters + 1)
  ELSE IF d + n > Len(b) + 1
  THEN ChunkResult(out \o [k \in 1..n |-> At(b, d + k - 1)], d + n,
                   TRUE, FALSE, iters + 1)
  ELSE ChunkLoop(b, AfterChunk(b, d + n),
                 out \o [k \in 1..n |-> At(b, d + k - 1)], iters + 1)

(* lines 228-231: the end of the size line *)
ChunkData(b, q, chunk_size, out, iters) ==
  IF strchr(b, q, LF) = 0 THEN ChunkResult(out, q, FALSE, FALSE, iters)
  ELSE ChunkCopy(b, strchr(b, q, LF) + 1, CopyLen(chunk_size), out, iters)

(* a loop that takes a size of zero for a chunk and goes on *)
ChunkSize_ZeroContinues(b, q, out, iters) ==
  IF strtol(b, q, RADIX) < 0 THEN ChunkResult(out, q, FALSE, FALSE, iters)
  ELSE ChunkData(b, q, strtol(b, q, RADIX), out, iters)

(* lines 224-226: the chunk size *)
ChunkSize(b, q, out, iters) ==
  IF strtol(b, q, RADIX) <= 0 THEN ChunkResult(out, q, FALSE, FALSE, iters)
  ELSE ChunkData(b, q, strtol(b, q, RADIX), out, iters)

(* lines 219-221: the loop test and the skip of leading CR and LF *)
ChunkLoop(b, p, out, iters) ==
  IF At(b, p) = NUL THEN ChunkResult(out, p, FALSE, FALSE, iters)
  ELSE ChunkSize(b, SkipCRLF(b, p), out, iters)

(***************************************************************************)
(* http_response_extract_body.  The result records the returned pointer    *)
(* (body), whether the chunked branch ran, and the undefined behaviour the  *)
(* loop met.  The test for chunked decoding searches the whole raw         *)
(* response, as the code does.                                             *)
(***************************************************************************)
BodyResult(body, chunked, overread, overwrite) ==
  [body |-> body, chunked |-> chunked, overread |-> overread,
   overwrite |-> overwrite]

SelectsChunked(raw) == strstr(raw, TE_CHUNKED) # 0

http_response_extract_body(raw_response, mallocOk) ==
  IF raw_response = NULL THEN BodyResult(NULL, FALSE, FALSE, FALSE)
  ELSE
    LET raw == Deref(raw_response)
        sep == strstr(raw, CRLFCRLF)
    IN IF sep = 0 THEN BodyResult(NULL, FALSE, FALSE, FALSE)
       ELSE
         LET body == SubSeq(raw, sep + 4, Len(raw))
         IN IF ~SelectsChunked(raw)
            THEN BodyResult(IF mallocOk THEN Ptr(body) ELSE NULL,
                            FALSE, FALSE, FALSE)
            ELSE IF ~mallocOk THEN BodyResult(NULL, TRUE, FALSE, FALSE)
            ELSE LET r == ChunkLoop(body, 1, <<>>, 0)
                 IN BodyResult(Ptr(r.out), TRUE, r.overread, r.overwrite)

(***************************************************************************)
(* http_response_extract: header, body and the status narrowed to the      *)
(* uint8_t field of struct http_response.                                  *)
(***************************************************************************)
StatusField(code) == ToUint8(code)

http_response_extract(raw_response, headerMallocOk, bodyMallocOk) ==
  LET header == http_response_extract_header(raw_response, headerMallocOk)
      b == http_response_extract_body(raw_response, bodyMallocOk)
  IN [header |-> header,
      body |-> b.body,
      status |-> StatusField(http_response_status_code(header)),
      chunked |-> b.chunked,
      overread |-> b.overread,
      overwrite |-> b.overwrite]

(***************************************************************************)
(* The state.  get(): pc is the position in get(); wire is what the peer   *)
(* sends before it closes and pos how much of it SSL_read has delivered;   *)
(* ctx, ssl, request and respSt are the states of the TLS context, the TLS *)
(* session, the request buffer and the response buffer; sockfd is the      *)
(* value fsocket returned and closes the number of close() calls made on   *)
(* it; response is the initialised part of the response buffer, total and  *)
(* capacity the loop's counters; oob records a write at or beyond          *)
(* capacity; dest is *dest (NULL while unwritten), ret the return value.   *)
(* host and path are the arguments of get(); resolved and sni are the      *)
(* names handed to htoip and to SSL_set_tlsext_host_name (NULL before);    *)
(* request_len is the result of the sizing snprintf, request_buf the       *)
(* rendered request buffer, sent what SSL_write was handed (buffer and     *)
(* length, NULL before) and send_request what it returned; steps is the    *)
(* log of the steps executed so far, each with its outcome.                *)
(* The framer on its own: given describes the input, fraw is the raw       *)
(* response, fres the result of http_response_extract.                     *)
(***************************************************************************)
VARIABLES pc, wire, pos, nreads, ctx, sockfd, closes, ssl, request,
          response, respSt, total, capacity, oob, reallocFailed, lastRv,
          extracted, dest, ret,
          host, path, resolved, sni, request_len, request_buf, sent,
          send_request, steps, teardown,
          fpc, given, fraw, fres

reqVars == <<host, path, resolved, sni, request_len, request_buf, sent,
             send_request, steps>>
getVars == <<pc, wire, pos, nreads, ctx, sockfd, closes, ssl, request,
             response, respSt, total, capacity, oob, reallocFailed, lastRv,
             extracted, dest, ret, teardown, reqVars>>
framerVars == <<fpc, given, fraw, fres>>

(***************************************************************************)
(* Concurrent calls of get(), one per thread, over the descriptor table of *)
(* the process: tpc[t] is the position of thread t in get(), tfd[t] its    *)
(* sockfd, fdtab[fd] the thread whose socket() call returned the open      *)
(* descriptor fd (NoThread when fd is closed), misuse the uses of a        *)
(* descriptor made by a thread while another thread's call owned it.       *)
(***************************************************************************)
VARIABLES tpc, tfd, fdtab, misuse

threadVars == <<tpc, tfd, fdtab, misuse>>

(***************************************************************************)
(* The list view: lpc is the position in listview() ("render" at the top   *)
(* of the loop, "poll" in tb_poll_event, "done" after the return) or in a  *)
(* lone call of list_filter ("filter", "filtered"); items is the caller's  *)
(* array and items0 its content at the call; input, current_index, offset, *)
(* vmode and current_mode are the locals of listview, selected is          *)
(* *selected, term_height what tb_height() returns; frame is the           *)
(* list rows of the last frame handed to tb_present (NULL before the       *)
(* first), ended how the loop was left, scored whether the lone call of    *)
(* list_filter got its score array, term_ev the event handed to a lone     *)
(* call of vim_motion ("motion", "moved"; NULL elsewhere).                 *)
(***************************************************************************)
VARIABLES lpc, items, items0, input, selected, current_index, offset, vmode,
          current_mode, term_height, frame, ended, scored, term_ev

uiVars == <<lpc, items, items0, input, selected, current_index, offset, vmode,
            current_mode, term_height, frame, ended, scored, term_ev>>

(***************************************************************************)
(* One call of get_prayer_times and what main does with its result: ppc is *)
(* the position ("get", "parse", "free", "response_free", "returned",      *)
(* "exit", or "abort" when the allocator stops the process), json_str the  *)
(* document the body of the response holds, http_resp the response of      *)
(* get, prayer_t the local of get_prayer_times (main's after the return),  *)
(* frees[b] the number of calls of free made on the heap block b, and      *)
(* get_prayer the value returned.                                          *)
(***************************************************************************)
VARIABLES ppc, json_str, http_resp, prayer_t, frees, get_prayer

prayerVars == <<ppc, json_str, http_resp, prayer_t, frees, get_prayer>>
otherVars == <<framerVars, threadVars, uiVars, prayerVars>>
vars == <<getVars, otherVars>>

(***************************************************************************)
(* The arguments of get() and the request, lines 288-309.  HOST is the     *)
(* macro of connection.h; the callers of get() pass HOST and an endpoint   *)
(* path.  int is IntBits wide: snprintf returns a negative value when the  *)
(* rendered length exceeds INT_MAX, and request_len + 1 overflows at       *)
(* INT_MAX.                                                                *)
(***************************************************************************)
HOST == <<"a", "p", "i", ".", "m", "y", "q", "u", "r", "a", "n", ".", "c", "o", "m">>
OtherHost == <<"e", "x", "a", "m", "p", "l", "e", ".", "o", "r", "g">>
CityPath == <<"/", "v", "2", "/", "s", "h", "o", "l", "a", "t", "/", "k", "o", "t", "a", "/", "s", "e", "m", "u", "a">>

INT_MAX == Pow2(IntBits - 1) - 1

FMT_GET == <<"G", "E", "T", " ">>
FMT_HTTP == <<" ", "H", "T", "T", "P", "/", "1", ".", "1", CR, LF>>
FMT_HOST == <<"H", "o", "s", "t", ":", " ">>
FMT_CLOSE == <<CR, LF, "C", "o", "n", "n", "e", "c", "t", "i", "o", "n", ":", " ", "c", "l", "o", "s", "e", CR, LF, CR, LF>>

(* the text the format "GET %s HTTP/1.1\r\nHost: %s\r\nConnection: close\r\n\r\n" expands to *)
RequestText(p, h) == FMT_GET \o p \o FMT_HTTP \o FMT_HOST \o h \o FMT_CLOSE

(* snprintf: its return value, and the bytes it puts in a buffer of size bytes *)
snprintf_ret(text) == IF Len(text) > INT_MAX THEN -1 ELSE Len(text)
snprintf_buf(text, size) ==
  IF size = 0 THEN <<>>
  ELSE SubSeq(text, 1, Min(Len(text), size - 1)) \o <<NUL>>

(***************************************************************************)
(* request_len + 1 as a size_t: the conversion of a negative int wraps     *)
(* modulo 2^SizeBits; at INT_MAX the int addition overflows, which is      *)
(* undefined: a build either wraps it to INT_MIN or computes it wide.      *)
(***************************************************************************)
RequestSizes(len) ==
  IF len = INT_MAX THEN {SizeT(SIZE_MOD - (INT_MAX + 1)), INT_MAX + 1}
  ELSE {SizeT(len + 1)}

(* SSL_write(ssl, buf, num): num on success, less on a short write, <= 0 on an error *)
SSL_write_returns(num) ==
  IF num <= 0 THEN {-1, 0} ELSE {num, num - 1, 0, -1}

(* an entry of the step log *)
Step(name, ok) == [step |-> name, ok |-> ok]

(* the byte streams a peer sends *)
WireEmpty == <<>>
WireNoSeparator == <<"H", "T", "T", "P", "/", "1", ".", "1", " ", "2", "0", "0", " ", "O", "K", CR, LF, "A", ":", " ", "b", CR, LF>>
WireOk == <<"H", "T", "T", "P", "/", "1", ".", "1", " ", "2", "0", "0", " ", "O", "K", CR, LF, CR, LF, "H", "e", "l", "l", "o">>
WireNotFound == <<"H", "T", "T", "P", "/", "1", ".", "1", " ", "4", "0", "4", " ", "N", "o", "t", " ", "F", "o", "u", "n", "d", CR, LF, CR, LF>>
WireNoSpace == <<"H", "T", "T", "P", "/", "1", ".", "1", CR, LF, CR, LF, "x">>
WireOneSpace == <<"H", "T", "T", "P", "/", "1", ".", "1", " ", "2", "0", "0", CR, LF, "A", ":", " ", "b", CR, LF, CR, LF>>
WireChunked == <<"H", "T", "T", "P", "/", "1", ".", "1", " ", "2", "0", "0", " ", "O", "K", CR, LF, "T", "r", "a", "n", "s", "f", "e", "r", "-", "E", "n", "c", "o", "d", "i", "n", "g", ":", " ", "c", "h", "u", "n", "k", "e", "d", CR, LF, CR, LF, "5", CR, LF, "H", "e", "l", "l", "o", CR, LF, "0", CR, LF, CR, LF>>
WireChunkTooBig == <<"H", " ", "2", "0", "0", " ", "K", CR, LF, "T", "r", "a", "n", "s", "f", "e", "r", "-", "E", "n", "c", "o", "d", "i", "n", "g", ":", " ", "c", "h", "u", "n", "k", "e", "d", CR, LF, CR, LF, "f", "f", CR, LF, "a", "b">>
WireNulByte == <<"a", "b", NUL, "c", "d", CR, LF>>

Wires == {WireEmpty, WireNoSeparator, WireOk, WireNotFound, WireNoSpace,
          WireOneSpace, WireChunked, WireChunkTooBig, WireNulByte}

(* the descriptor fsocket returns when socket() succeeds *)
SOCKFD == 3

(* nothing resolved, rendered, sent or released, no step taken *)
RequestIdle ==
  /\ resolved = NULL /\ sni = NULL /\ request_len = 0 /\ request_buf = <<>>
  /\ sent = NULL /\ send_request = 0 /\ steps = <<>> /\ teardown = <<>>

GetIdle ==
  /\ pc = "idle" /\ wire = <<>> /\ pos = 0 /\ nreads = 0
  /\ ctx = "none" /\ sockfd = -1 /\ closes = 0 /\ ssl = "none"
  /\ request = "none" /\ response = <<>> /\ respSt = "null"
  /\ total = 0 /\ capacity = 0 /\ oob = FALSE /\ reallocFailed = FALSE
  /\ lastRv = 1 /\ extracted = NULL /\ dest = NULL /\ ret = 0
  /\ host = <<>> /\ path = <<>> /\ RequestIdle

FramerIdle == fpc = "idle" /\ given = NULL /\ fraw = NULL /\ fres = NULL

(* the threads that call get() and the descriptors socket() can return *)
Threads == {1, 2}
NoThread == 0
Descriptors == {SOCKFD, SOCKFD + 1}

ListviewIdle ==
  /\ lpc = "idle" /\ items = <<>> /\ items0 = <<>> /\ input = <<>>
  /\ selected = 0 /\ current_index = 0 /\ offset = 0
  /\ vmode = "NORMAL" /\ current_mode = "DEFAULT"
  /\ term_height = 0 /\ frame = NULL /\ ended = "no" /\ scored = FALSE
  /\ term_ev = NULL

(***************************************************************************)
(* The heap blocks of get_prayer_times.  A block is named by the member it *)
(* is stored in and, for the strings of a schedule entry, the index of the *)
(* entry (0 otherwise); a pointer to a string is the name of its block or  *)
(* NULL.  "request" and "data" are the two temporaries of parse_json,      *)
(* "header" and "body" the members of the http_response.                   *)
(***************************************************************************)
ScheduleFields == {"date", "fajr", "dhuha", "dzuhr", "ashr", "maghrib", "isya"}
Blocks ==
  {<<n, 0>> : n \in {"request", "path", "data", "location", "province",
                     "schedule", "header", "body"}}
    \cup (ScheduleFields \X (1..MaxSchedule))

(* memset(&prayer_t, 0, sizeof(prayer_t)); the status flag is left out *)
ZeroedData ==
  [location |-> NULL, province |-> NULL, schedule_size |-> 0, schedule |-> NULL]
ZeroedPrayer == [req |-> [path |-> NULL], data |-> ZeroedData]

PrayerIdle ==
  /\ ppc = "idle" /\ json_str = NULL
  /\ http_resp = [header |-> NULL, body |-> NULL]
  /\ prayer_t = ZeroedPrayer
  /\ frees = [b \in Blocks |-> 0]
  /\ get_prayer = 0

ThreadsIdle ==
  /\ tpc = [t \in Threads |-> "idle"]
  /\ tfd = [t \in Threads |-> -1]
  /\ fdtab = [fd \in Descriptors |-> NoThread]
  /\ misuse = {}

Init ==
  /\ pc = "ssl_init" /\ wire \in Wires /\ pos = 0 /\ nreads = 0
  /\ ctx = "none" /\ sockfd = -1 /\ closes = 0 /\ ssl = "none"
  /\ request = "none" /\ response = <<>> /\ respSt = "null"
  /\ total = 0 /\ capacity = 0 /\ oob = FALSE /\ reallocFailed = FALSE
  /\ lastRv = 1 /\ extracted = NULL /\ dest = NULL /\ ret = 0
  /\ host = HOST /\ path = CityPath /\ RequestIdle
  /\ FramerIdle /\ ThreadsIdle /\ ListviewIdle /\ PrayerIdle

(* close(fd): counted when fd is the descriptor fsocket returned *)
CloseCount(fd, n) == IF fd >= 0 THEN n + 1 ELSE n

(* a session release that shuts the session down without freeing it *)
ssl_session_free_ShutdownOnly(s) == s

(* ssl_session_free / ssl_ctx_free: release when not NULL *)
ssl_session_free(s) == IF s = "live" THEN "freed" ELSE s
ssl_ctx_free(c) == IF c = "live" THEN "freed" ELSE c

(***************************************************************************)
(* The release calls in the order they are made, as teardown logs them:    *)
(* ssl_session_free and ssl_ctx_free act on a pointer that is not NULL,    *)
(* close is logged for the descriptor fsocket returned.  get_teardown is   *)
(* the sequence get() ends with on every path after the handshake, lines   *)
(* 297-299, 314-316, 335-337 and 353-355.                                  *)
(***************************************************************************)
ssl_session_free_calls(s) == IF s = "live" THEN <<"SSL_shutdown", "SSL_free">> ELSE <<>>
ssl_ctx_free_calls(c) == IF c = "live" THEN <<"SSL_CTX_free">> ELSE <<>>
close_calls(fd) == IF fd >= 0 THEN <<"close">> ELSE <<>>
(* a teardown that closes the socket before it releases the session *)
get_teardown_CloseFirst(s, c, fd) ==
  close_calls(fd) \o ssl_session_free_calls(s) \o ssl_ctx_free_calls(c)
get_teardown(s, c, fd) ==
  ssl_session_free_calls(s) \o ssl_ctx_free_calls(c) \o close_calls(fd)

(* free(response) *)
FreeResponse(st) == IF st = "live" THEN "freed" ELSE st

(***************************************************************************)
(* fconnect(sockfd) with the outcome of its steps: the return value and    *)
(* whether fconnect itself closed the descriptor.                          *)
(***************************************************************************)
fconnect(fd, outcome) ==
  IF fd < 0 THEN [rc |-> -1, closed |-> FALSE]
  ELSE IF outcome = "htoip_fail" THEN [rc |-> -1, closed |-> TRUE]
  ELSE IF outcome = "inet_pton_fail" THEN [rc |-> -1, closed |-> TRUE]
  ELSE IF outcome = "connect_fail" THEN [rc |-> -1, closed |-> FALSE]
  ELSE [rc |-> 0, closed |-> FALSE]

GetSslInit ==
  /\ pc = "ssl_init"
  /\ \E ok \in BOOLEAN :
       /\ IF ok THEN ctx' = "live" /\ pc' = "fsocket" /\ ret' = ret
          ELSE ctx' = ctx /\ pc' = "returned" /\ ret' = -1
       /\ steps' = Append(steps, Step("ssl_init", ok))
  /\ UNCHANGED <<teardown,
                 wire, pos, nreads, sockfd, closes, ssl, request, response,
                 respSt, total, capacity, oob, reallocFailed, lastRv,
                 extracted, dest, host, path, resolved, sni, request_len,
                 request_buf, sent, send_request, otherVars>>

GetFsocket ==
  /\ pc = "fsocket"
  /\ \E fd \in {-1, SOCKFD} :
       /\ sockfd' = fd
       /\ steps' = Append(steps, Step("socket", fd >= 0))
  /\ pc' = "fconnect"
  /\ UNCHANGED <<teardown,
                 wire, pos, nreads, ctx, closes, ssl, request, response,
                 respSt, total, capacity, oob, reallocFailed, lastRv,
                 extracted, dest, ret, host, path, resolved, sni, request_len,
                 request_buf, sent, send_request, otherVars>>

(* the steps fconnect(sockfd) executes for an outcome, lines 16-43 *)
fconnect_steps(fd, outcome) ==
  IF fd < 0 THEN <<>>
  ELSE IF outcome = "htoip_fail" THEN <<Step("resolve", FALSE)>>
  ELSE IF outcome = "inet_pton_fail"
  THEN <<Step("resolve", TRUE), Step("inet_pton", FALSE)>>
  ELSE <<Step("resolve", TRUE), Step("inet_pton", TRUE),
         Step("connect", outcome = "ok")>>

(* line 26: the name fconnect hands to htoip *)
fconnect_hostname(fd, h) == IF fd < 0 THEN NULL ELSE Ptr(HOST)

GetFconnect ==
  /\ pc = "fconnect"
  /\ \E outcome \in {"htoip_fail", "inet_pton_fail", "connect_fail", "ok"} :
       LET r == fconnect(sockfd, outcome)
       IN /\ closes' = IF r.closed THEN CloseCount(sockfd, closes) ELSE closes
          /\ teardown' = IF r.closed THEN teardown \o close_calls(sockfd)
                          ELSE teardown
          /\ pc' = IF r.rc < 0 THEN "connect_failed" ELSE "ssl_connect"
          /\ steps' = steps \o fconnect_steps(sockfd, outcome)
  /\ resolved' = fconnect_hostname(sockfd, host)
  /\ UNCHANGED <<wire, pos, nreads, ctx, sockfd, ssl, request, response,
                 respSt, total, capacity, oob, reallocFailed, lastRv,
                 extracted, dest, ret, host, path, sni, request_len,
                 request_buf, sent, send_request, otherVars>>

(* get(), lines 274-279: the branch taken when fconnect fails *)
GetConnectFailed ==
  /\ pc = "connect_failed"
  /\ ctx' = ssl_ctx_free(ctx)
  /\ closes' = CloseCount(sockfd, closes)
  /\ teardown' = teardown \o ssl_ctx_free_calls(ctx) \o close_calls(sockfd)
  /\ ret' = -1
  /\ pc' = "returned"
  /\ UNCHANGED <<wire, pos, nreads, sockfd, ssl, request, response,
                 respSt, total, capacity, oob, reallocFailed, lastRv,
                 extracted, dest, reqVars, otherVars>>

(* ssl_connect and get(), lines 281-286 *)
(* the steps ssl_connect executes for an outcome, lines 100-118 *)
ssl_connect_steps(outcome) ==
  IF outcome = "new_fail" THEN <<Step("ssl_new", FALSE)>>
  ELSE IF outcome = "sni_fail"
  THEN <<Step("ssl_new", TRUE), Step("sni", FALSE)>>
  ELSE <<Step("ssl_new", TRUE), Step("sni", TRUE),
         Step("handshake", outcome = "ok")>>

(* the session SSL_new made, as ssl_connect leaves it: freed on a failure *)
ssl_connect_session(outcome) ==
  IF outcome = "new_fail" THEN "none"
  ELSE IF outcome = "ok" THEN "live"
  ELSE "freed"

(* lines 108 and 115: ssl_connect frees the session it could not set up *)
ssl_connect_calls(outcome) ==
  IF outcome \in {"sni_fail", "handshake_fail"} THEN <<"SSL_free">> ELSE <<>>

(* lines 281 and 106: the server name get() hands to ssl_connect *)
ssl_connect_hostname(outcome, h) ==
  IF outcome = "new_fail" THEN NULL ELSE Ptr(HOST)

GetSslConnect ==
  /\ pc = "ssl_connect"
  /\ \E outcome \in {"new_fail", "sni_fail", "handshake_fail", "ok"} :
       /\ IF outcome = "ok"
          THEN /\ ssl' = ssl_connect_session(outcome) /\ pc' = "request"
               /\ UNCHANGED <<ctx, closes, ret, teardown>>
          ELSE /\ ssl' = ssl_connect_session(outcome)
               /\ ctx' = ssl_ctx_free(ctx)
               /\ closes' = CloseCount(sockfd, closes)
               /\ teardown' = teardown \o ssl_connect_calls(outcome)
                                        \o ssl_ctx_free_calls(ctx)
                                        \o close_calls(sockfd)
               /\ ret' = -1
               /\ pc' = "returned"
       /\ sni' = ssl_connect_hostname(outcome, host)
       /\ steps' = steps \o ssl_connect_steps(outcome)
  /\ UNCHANGED <<wire, pos, nreads, sockfd, request, response,
                 respSt, total, capacity, oob, reallocFailed, lastRv,
                 extracted, dest, host, path, resolved, request_len,
                 request_buf, sent, send_request, otherVars>>

(* malloc and realloc cannot succeed for a size above PTRDIFF_MAX *)
PTRDIFF_MAX == Pow2(SizeBits - 1) - 1
(* an allocator that serves every size *)
ReallocMaySucceed_AnySize(size) == TRUE
ReallocMaySucceed(size) == size <= PTRDIFF_MAX

(* get(), lines 288-307: the request buffer *)
GetBuildRequest ==
  /\ pc = "request"
  /\ request_len' = snprintf_ret(RequestText(path, host))
  /\ \E mallocOk \in BOOLEAN, size \in RequestSizes(request_len') :
       /\ mallocOk => ReallocMaySucceed(size)
       /\ IF mallocOk
          THEN /\ request' = "live" /\ pc' = "write"
               /\ request_buf' = snprintf_buf(RequestText(path, host), size)
               /\ UNCHANGED <<ssl, ctx, closes, ret, teardown>>
          ELSE /\ request' = request
               /\ request_buf' = request_buf
               /\ ssl' = ssl_session_free(ssl)
               /\ ctx' = ssl_ctx_free(ctx)
               /\ closes' = CloseCount(sockfd, closes)
               /\ teardown' = teardown \o get_teardown(ssl, ctx, sockfd)
               /\ ret' = -1
               /\ pc' = "returned"
       /\ steps' = Append(steps, Step("request", mallocOk))
  /\ UNCHANGED <<wire, pos, nreads, sockfd, response,
                 respSt, total, capacity, oob, reallocFailed, lastRv,
                 extracted, dest, host, path, resolved, sni, sent,
                 send_request, otherVars>>

(* line 312: the test that lets get() go on after SSL_write *)
WriteAccepted(rc, len) == rc = len

(* get(), lines 309-318: SSL_write, free(request), the length test *)
GetSslWrite ==
  /\ pc = "write"
  /\ request' = "freed"
  /\ sent' = Ptr([buf |-> request_buf, num |-> request_len])
  /\ \E rc \in SSL_write_returns(request_len) :
       /\ send_request' = rc
       /\ IF WriteAccepted(rc, request_len)
          THEN /\ pc' = "read"
               /\ UNCHANGED <<ssl, ctx, closes, ret, teardown>>
          ELSE /\ ssl' = ssl_session_free(ssl)
               /\ ctx' = ssl_ctx_free(ctx)
               /\ closes' = CloseCount(sockfd, closes)
               /\ teardown' = teardown \o get_teardown(ssl, ctx, sockfd)
               /\ ret' = -1
               /\ pc' = "returned"
       /\ steps' = Append(steps, Step("send", rc > 0 /\ rc = request_len))
  /\ UNCHANGED <<wire, pos, nreads, sockfd, response,
                 respSt, total, capacity, oob, reallocFailed, lastRv,
                 extracted, dest, host, path, resolved, sni, request_len,
                 request_buf, otherVars>>

(***************************************************************************)
(* The read loop, lines 326-347.  GrowCapacity is the size handed to       *)
(* realloc for a read of rv bytes.  realloc may fail for any size; it      *)
(* cannot succeed for a size above PTRDIFF_MAX, which no allocator         *)
(* serves.  The buffer is modelled by its initialised bytes: realloc keeps *)
(* them, and a write puts bytes at a 0-based offset.                       *)
(***************************************************************************)
(* the growth without the byte reserved for the terminator *)
GrowCapacity_NoTerminatorRoom(tot, rv, cap) ==
  LET tmp_capacity == IF cap = 0 THEN CHUNK_SIZE ELSE SizeT(cap * 2)
  IN IF SizeT(tot + rv) >= tmp_capacity THEN SizeT(tot + rv)
     ELSE tmp_capacity

GrowCapacity(tot, rv, cap) ==
  LET tmp_capacity == IF cap = 0 THEN CHUNK_SIZE ELSE SizeT(cap * 2)
  IN IF SizeT(tot + rv) >= tmp_capacity THEN SizeT(tot + rv + 1)
     ELSE tmp_capacity

Realloc(mem, size) == SubSeq(mem, 1, Min(Len(mem), size))

WriteBytes(mem, off, bytes) ==
  [i \in 1..Max(Len(mem), off + Len(bytes)) |->
     IF off < i /\ i <= off + Len(bytes) THEN bytes[i - off]
     ELSE IF i <= Len(mem) THEN mem[i]
     ELSE UNINIT]

(* memcpy(response + total, buffer, rv): the offset the read is copied to *)
AppendOffset(tot) == tot

GetReadAppend ==
  /\ pc = "read"
  /\ pos < Len(wire)
  /\ \E rv \in 1..Min(CHUNK_SIZE, Len(wire) - pos) :
       LET tmp_capacity == GrowCapacity(total, rv, capacity)
           buffer == SubSeq(wire, pos + 1, pos + rv)
       IN /\ ReallocMaySucceed(tmp_capacity)
          /\ response' = WriteBytes(Realloc(response, tmp_capacity),
                                    AppendOffset(total), buffer)
          /\ oob' = (oob \/ AppendOffset(total) + rv > tmp_capacity)
          /\ total' = SizeT(total + rv)
          /\ capacity' = tmp_capacity
          /\ pos' = pos + rv
          /\ lastRv' = rv
  /\ nreads' = nreads + 1
  /\ respSt' = "live"
  /\ UNCHANGED <<teardown,
                 pc, wire, ctx, sockfd, closes, ssl, request, reallocFailed,
                 extracted, dest, ret, reqVars, otherVars>>

(* the realloc failure branch without free(response) *)
GetReadReallocFail_Leak ==
  /\ pc = "read"
  /\ pos < Len(wire)
  /\ reallocFailed' = TRUE
  /\ ssl' = ssl_session_free(ssl)
  /\ ctx' = ssl_ctx_free(ctx)
  /\ closes' = CloseCount(sockfd, closes)
  /\ teardown' = teardown \o get_teardown(ssl, ctx, sockfd)
  /\ ret' = -1
  /\ pc' = "returned"
  /\ steps' = Append(steps, Step("accumulate", FALSE))
  /\ UNCHANGED <<wire, pos, nreads, sockfd, request, response, respSt, total,
                 capacity, oob, lastRv, extracted, dest, host, path, resolved,
                 sni, request_len, request_buf, sent, send_request,
                 otherVars>>

(* lines 334-341: realloc returned NULL *)
GetReadReallocFail ==
  /\ pc = "read"
  /\ pos < Len(wire)
  /\ reallocFailed' = TRUE
  /\ ssl' = ssl_session_free(ssl)
  /\ ctx' = ssl_ctx_free(ctx)
  /\ closes' = CloseCount(sockfd, closes)
  /\ teardown' = teardown \o get_teardown(ssl, ctx, sockfd)
  /\ respSt' = FreeResponse(respSt)
  /\ ret' = -1
  /\ pc' = "returned"
  /\ steps' = Append(steps, Step("accumulate", FALSE))
  /\ UNCHANGED <<wire, pos, nreads, sockfd, request, response, total,
                 capacity, oob, lastRv, extracted, dest, host, path, resolved,
                 sni, request_len, request_buf, sent, send_request,
                 otherVars>>

(***************************************************************************)
(* Lines 326 and 349-355: SSL_read returns 0 (the peer closed, after the   *)
(* whole wire) or a negative value (an I/O error, at any point); the loop  *)
(* ends, the terminator is written and the connection is torn down.        *)
(***************************************************************************)
GetReadEnd ==
  /\ pc = "read"
  /\ \E rv \in {0, -1} :
       /\ rv = 0 => pos = Len(wire)
       /\ lastRv' = rv
       /\ steps' = Append(steps, Step("accumulate", rv = 0))
  /\ response' = IF respSt = "live" THEN WriteBytes(response, total, <<NUL>>)
                 ELSE response
  /\ oob' = (oob \/ (respSt = "live" /\ total >= capacity))
  /\ ssl' = ssl_session_free(ssl)
  /\ ctx' = ssl_ctx_free(ctx)
  /\ closes' = CloseCount(sockfd, closes)
  /\ teardown' = teardown \o get_teardown(ssl, ctx, sockfd)
  /\ pc' = "extract"
  /\ UNCHANGED <<wire, pos, nreads, sockfd, request, respSt, total,
                 capacity, reallocFailed, extracted, dest, ret, host, path,
                 resolved, sni, request_len, request_buf, sent, send_request,
                 otherVars>>

(* the C string a char pointer to mem designates: the bytes before the first NUL *)
CStr(mem) ==
  LET z == strchr(mem, 1, NUL)
  IN IF z = 0 THEN mem ELSE SubSeq(mem, 1, z - 1)

(* line 358: the test that makes get() fail after extraction *)
ResponseInvalid(r) == r.header = NULL /\ r.body = NULL

(***************************************************************************)
(* Lines 357-367: extraction, the validity test, *dest, free(response).    *)
(* The two mallocs of the extraction may each fail.  When the chunked      *)
(* decoder runs into undefined behaviour the call may crash, or go on with *)
(* what the decoder had produced.                                          *)
(***************************************************************************)
GetExtract ==
  /\ pc = "extract"
  /\ \E headerMallocOk \in BOOLEAN, bodyMallocOk \in BOOLEAN,
        crash \in BOOLEAN :
       LET raw == IF respSt = "live" THEN Ptr(CStr(response)) ELSE NULL
           r == http_response_extract(raw, headerMallocOk, bodyMallocOk)
       IN /\ IF crash
             THEN /\ r.overread \/ r.overwrite
                  /\ pc' = "crashed"
                  /\ extracted' = Ptr(r)
                  /\ UNCHANGED <<dest, ret, respSt>>
             ELSE /\ extracted' = Ptr(r)
                  /\ respSt' = FreeResponse(respSt)
                  /\ pc' = "returned"
                  /\ IF ResponseInvalid(r)
                     THEN ret' = -1 /\ dest' = dest
                     ELSE /\ ret' = 0
                          /\ dest' = Ptr([header |-> r.header,
                                          body |-> r.body,
                                          status |-> r.status])
          /\ steps' = Append(steps,
                             Step("frame", ~crash /\ ~ResponseInvalid(r)))
  /\ UNCHANGED <<teardown,
                 wire, pos, nreads, ctx, sockfd, closes, ssl, request,
                 response, total, capacity, oob, reallocFailed, lastRv,
                 host, path, resolved, sni, request_len, request_buf, sent,
                 send_request, otherVars>>

Next ==
  \/ GetSslInit
  \/ GetFsocket
  \/ GetFconnect
  \/ GetConnectFailed
  \/ GetSslConnect
  \/ GetBuildRequest
  \/ GetSslWrite
  \/ GetReadAppend
  \/ GetReadReallocFail
  \/ GetReadEnd
  \/ GetExtract

Spec == Init /\ [][Next]_vars

(***************************************************************************)
(* get() called with any host and path: the macro HOST or another name,    *)
(* an endpoint path or a path that brings the rendered request to INT_MAX  *)
(* bytes or beyond.                                                        *)
(***************************************************************************)
PathOfLen(n) == [i \in 1..n |-> IF i = 1 THEN "/" ELSE "p"]
LongPath(h, extra) == PathOfLen(INT_MAX - Len(RequestText(<<>>, h)) + extra)

Hosts == {HOST, OtherHost}
Paths == {CityPath, LongPath(HOST, 0), LongPath(HOST, 1)}

InitRequest ==
  /\ pc = "ssl_init" /\ wire \in {WireOk, WireNoSeparator} /\ pos = 0
  /\ nreads = 0
  /\ ctx = "none" /\ sockfd = -1 /\ closes = 0 /\ ssl = "none"
  /\ request = "none" /\ response = <<>> /\ respSt = "null"
  /\ total = 0 /\ capacity = 0 /\ oob = FALSE /\ reallocFailed = FALSE
  /\ lastRv = 1 /\ extracted = NULL /\ dest = NULL /\ ret = 0
  /\ host \in Hosts /\ path \in Paths /\ RequestIdle
  /\ FramerIdle /\ ThreadsIdle /\ ListviewIdle /\ PrayerIdle

SpecRequest == InitRequest /\ [][Next]_vars

(***************************************************************************)
(* get() on several threads.  Each thread runs the steps of get() that     *)
(* touch its descriptor: socket() returns the lowest descriptor that is    *)
(* not open, close(fd) closes whatever fd designates at that moment, and   *)
(* connect, the handshake, SSL_write, SSL_read and SSL_shutdown do I/O on  *)
(* sockfd.  The close in fconnect and the close in get() are two steps:    *)
(* other threads run between them.                                         *)
(***************************************************************************)
LowestFree(tab) ==
  CHOOSE fd \in Descriptors :
    /\ tab[fd] = NoThread
    /\ \A g \in Descriptors : tab[g] = NoThread => fd <= g

(* socket(): the descriptors it can return, -1 for a failure *)
SocketReturns(tab) ==
  IF \E fd \in Descriptors : tab[fd] = NoThread
  THEN {LowestFree(tab), -1}
  ELSE {-1}

OpenFd(tab, fd, t) == IF fd >= 0 THEN [tab EXCEPT ![fd] = t] ELSE tab

(* close(fd) *)
CloseFd(tab, fd) == IF fd >= 0 THEN [tab EXCEPT ![fd] = NoThread] ELSE tab

(* the use op of descriptor fd by thread t, when another call owns fd *)
Misuse(tab, t, op, fd) ==
  IF fd >= 0 /\ tab[fd] # NoThread /\ tab[fd] # t
  THEN {[thread |-> t, op |-> op, fd |-> fd, owner |-> tab[fd]]}
  ELSE {}

(* ssl_session_free, ssl_ctx_free, close(sockfd): the teardown of get() *)
ThreadTeardown(t, shutdown) ==
  /\ misuse' = misuse \cup (IF shutdown THEN Misuse(fdtab, t, "io", tfd[t])
                                         ELSE {})
                      \cup Misuse(fdtab, t, "close", tfd[t])
  /\ fdtab' = CloseFd(fdtab, tfd[t])

ThreadSslInit(t) ==
  /\ tpc[t] = "ssl_init"
  /\ \E ok \in BOOLEAN :
       tpc' = [tpc EXCEPT ![t] = IF ok THEN "fsocket" ELSE "returned"]
  /\ UNCHANGED <<tfd, fdtab, misuse, getVars, framerVars, uiVars, prayerVars>>

ThreadFsocket(t) ==
  /\ tpc[t] = "fsocket"
  /\ \E fd \in SocketReturns(fdtab) :
       /\ tfd' = [tfd EXCEPT ![t] = fd]
       /\ fdtab' = OpenFd(fdtab, fd, t)
  /\ tpc' = [tpc EXCEPT ![t] = "fconnect"]
  /\ UNCHANGED <<misuse, getVars, framerVars, uiVars, prayerVars>>

ThreadFconnect(t) ==
  /\ tpc[t] = "fconnect"
  /\ \E outcome \in {"htoip_fail", "inet_pton_fail", "connect_fail", "ok"} :
       LET r == fconnect(tfd[t], outcome)
           connects == tfd[t] >= 0 /\ outcome \in {"connect_fail", "ok"}
       IN /\ misuse' = misuse
                \cup (IF r.closed THEN Misuse(fdtab, t, "close", tfd[t])
                                  ELSE {})
                \cup (IF connects THEN Misuse(fdtab, t, "io", tfd[t])
                                  ELSE {})
          /\ fdtab' = IF r.closed THEN CloseFd(fdtab, tfd[t]) ELSE fdtab
          /\ tpc' = [tpc EXCEPT ![t] = IF r.rc < 0 THEN "connect_failed"
                                                  ELSE "ssl_connect"]
  /\ UNCHANGED <<tfd, getVars, framerVars, uiVars, prayerVars>>

ThreadConnectFailed(t) ==
  /\ tpc[t] = "connect_failed"
  /\ ThreadTeardown(t, FALSE)
  /\ tpc' = [tpc EXCEPT ![t] = "returned"]
  /\ UNCHANGED <<tfd, getVars, framerVars, uiVars, prayerVars>>

ThreadSslConnect(t) ==
  /\ tpc[t] = "ssl_connect"
  /\ \E outcome \in {"new_fail", "sni_fail", "handshake_fail", "ok"} :
       LET handshakes == outcome \in {"handshake_fail", "ok"}
       IN IF outcome = "ok"
          THEN /\ misuse' = misuse \cup Misuse(fdtab, t, "io", tfd[t])
               /\ fdtab' = fdtab
               /\ tpc' = [tpc EXCEPT ![t] = "request"]
          ELSE /\ misuse' = misuse
                    \cup (IF handshakes THEN Misuse(fdtab, t, "io", tfd[t])
                                        ELSE {})
                    \cup Misuse(fdtab, t, "close", tfd[t])
               /\ fdtab' = CloseFd(fdtab, tfd[t])
               /\ tpc' = [tpc EXCEPT ![t] = "returned"]
  /\ UNCHANGED <<tfd, getVars, framerVars, uiVars, prayerVars>>

ThreadBuildRequest(t) ==
  /\ tpc[t] = "request"
  /\ \E mallocOk \in BOOLEAN :
       IF mallocOk
       THEN /\ tpc' = [tpc EXCEPT ![t] = "write"]
            /\ UNCHANGED <<fdtab, misuse>>
       ELSE /\ ThreadTeardown(t, TRUE)
            /\ tpc' = [tpc EXCEPT ![t] = "returned"]
  /\ UNCHANGED <<tfd, getVars, framerVars, uiVars, prayerVars>>

ThreadSslWrite(t) ==
  /\ tpc[t] = "write"
  /\ \E accepted \in BOOLEAN :
       IF accepted
       THEN /\ misuse' = misuse \cup Misuse(fdtab, t, "io", tfd[t])
            /\ fdtab' = fdtab
            /\ tpc' = [tpc EXCEPT ![t] = "read"]
       ELSE /\ ThreadTeardown(t, TRUE)
            /\ tpc' = [tpc EXCEPT ![t] = "returned"]
  /\ UNCHANGED <<tfd, getVars, framerVars, uiVars, prayerVars>>

(* one SSL_read that delivers bytes: the loop goes on *)
ThreadRead(t) ==
  /\ tpc[t] = "read"
  /\ misuse' = misuse \cup Misuse(fdtab, t, "io", tfd[t])
  /\ UNCHANGED <<tpc, tfd, fdtab, getVars, framerVars, uiVars, prayerVars>>

(* the loop ends (rv <= 0 or realloc fails): teardown, framing, return *)
ThreadReadEnd(t) ==
  /\ tpc[t] = "read"
  /\ ThreadTeardown(t, TRUE)
  /\ tpc' = [tpc EXCEPT ![t] = "returned"]
  /\ UNCHANGED <<tfd, getVars, framerVars, uiVars, prayerVars>>

ThreadStep(t) ==
  \/ ThreadSslInit(t)
  \/ ThreadFsocket(t)
  \/ ThreadFconnect(t)
  \/ ThreadConnectFailed(t)
  \/ ThreadSslConnect(t)
  \/ ThreadBuildRequest(t)
  \/ ThreadSslWrite(t)
  \/ ThreadRead(t)
  \/ ThreadReadEnd(t)

ThreadsInit ==
  /\ GetIdle /\ FramerIdle /\ ListviewIdle /\ PrayerIdle
  /\ tpc = [t \in Threads |-> "ssl_init"]
  /\ tfd = [t \in Threads |-> -1]
  /\ fdtab = [fd \in Descriptors |-> NoThread]
  /\ misuse = {}

ThreadsNext == \E t \in Threads : ThreadStep(t)

SpecThreads == ThreadsInit /\ [][ThreadsNext]_vars

(***************************************************************************)
(* The list view of src/src/presentation/uikit.c.  A character is a        *)
(* one-character string; Ord gives its code (Printable lists the codes 32  *)
(* to 126 in order), on which fuzzy_score does its arithmetic.  A score is *)
(* a double in the code; every score the loop produces is a small integer, *)
(* and -DBL_MAX is a value below all of them.                              *)
(***************************************************************************)
GRAVE == "grave accent"

Printable == <<
  " ", "!", "\"", "#", "$", "%", "&", "'", "(", ")", "*", "+",
  ",", "-", ".", "/", "0", "1", "2", "3", "4", "5", "6", "7",
  "8", "9", ":", ";", "<", "=", ">", "?", "@", "A", "B", "C",
  "D", "E", "F", "G", "H", "I", "J", "K", "L", "M", "N", "O",
  "P", "Q", "R", "S", "T", "U", "V", "W", "X", "Y", "Z", "[",
  "\\", "]", "^", "_", GRAVE, "a", "b", "c", "d", "e", "f", "g",
  "h", "i", "j", "k", "l", "m", "n", "o", "p", "q", "r", "s",
  "t", "u", "v", "w", "x", "y", "z", "{", "|", "}", "~">>

Ord == [c \in {Printable[i] : i \in 1..Len(Printable)} |->
          31 + (CHOOSE i \in 1..Len(Printable) : Printable[i] = c)]

NEG_DBL_MAX == 0 - Pow2(30)

(* lines 278-281: the case folding of a byte of str and of a byte of pattern *)
FoldStr(c) ==
  IF Ord[c] >= Ord["A"] /\ Ord[c] <= Ord["z"] THEN Ord[c] + 32 ELSE Ord[c]
FoldPattern(c) ==
  IF Ord[c] >= Ord["A"] /\ Ord[c] <= Ord["Z"] THEN Ord[c] + 32 ELSE Ord[c]

is_alnum_fast(c) ==
  \/ Ord[c] >= Ord["a"] /\ Ord[c] <= Ord["z"]
  \/ Ord[c] >= Ord["0"] /\ Ord[c] <= Ord["9"]

(* lines 284-287: the points of a match at the 0-based index si *)
MatchPoints(str, si, consecutive) ==
  10 + consecutive * 5
    + (IF si + 1 = Len(str) \/ ~is_alnum_fast(str[si + 2]) THEN 15 ELSE 0)

RECURSIVE FuzzyLoop(_, _, _, _, _, _)

(* lines 297-299: si has been advanced; the early exit *)
FuzzyAdvance(str, pattern, si, pi, consecutive, score) ==
  IF Len(str) - si < Len(pattern) - pi THEN [pi |-> pi, score |-> score]
  ELSE FuzzyLoop(str, pattern, si, pi, consecutive, score)

(* lines 274-296: one iteration at the 0-based indices si and pi *)
FuzzyLoop(str, pattern, si, pi, consecutive, score) ==
  IF ~(si < Len(str) /\ pi < Len(pattern)) THEN [pi |-> pi, score |-> score]
  ELSE IF FoldStr(str[si + 1]) = FoldPattern(pattern[pi + 1])
  THEN FuzzyAdvance(str, pattern, si + 1, pi + 1, consecutive + 1,
                    score + MatchPoints(str, si, consecutive))
  ELSE FuzzyAdvance(str, pattern, si + 1, pi, 0, score - 1)

FuzzyResult(r, patternl) == IF r.pi < patternl THEN NEG_DBL_MAX ELSE r.score

fuzzy_score(str, pattern) ==
  IF Len(pattern) = 0 THEN 0
  ELSE FuzzyResult(FuzzyLoop(str, pattern, 0, 0, 0, 0), Len(pattern))

(* a comparison that orders the scores ascending *)
compare_score_desc_Ascending(a, b) ==
  (IF a.score > b.score THEN 1 ELSE 0) - (IF a.score < b.score THEN 1 ELSE 0)

compare_score_desc(a, b) ==
  (IF b.score > a.score THEN 1 ELSE 0) - (IF b.score < a.score THEN 1 ELSE 0)

(***************************************************************************)
(* line 351, qsort(arr, count, sizeof(struct fuzzy_score),                 *)
(* compare_score_desc): an arrangement of arr in which no element compares *)
(* greater than a later one; which one, where elements compare equal, is   *)
(* not specified.                                                          *)
(***************************************************************************)
qsort(arr, count) ==
  {[i \in 1..count |-> arr[p[i]]] :
     p \in {q \in Permutations(1..count) :
              \A i, j \in 1..count :
                i < j => compare_score_desc(arr[q[i]], arr[q[j]]) <= 0}}

(* lines 345-349: the array of struct fuzzy_score *)
ScoreArray(list, query) ==
  [i \in 1..Len(list) |->
     [id |-> list[i].id, item |-> list[i].name,
      score |-> fuzzy_score(list[i].name, query)]]

(* lines 353-356: the copy back into items *)
CopyBack(arr) == [i \in 1..Len(arr) |-> [id |-> arr[i].id, name |-> arr[i].item]]

(***************************************************************************)
(* list_filter(items, count, query): the arrays it can leave in items,      *)
(* given the array list it found there.                                    *)
(* It returns at once for count <= 0 and when malloc fails.                *)
(***************************************************************************)
list_filter(list, count, query, mallocOk) ==
  IF count <= 0 \/ ~mallocOk THEN {list}
  ELSE {CopyBack(sorted) :
          sorted \in qsort(ScoreArray(list, query), count)}

(***************************************************************************)
(* The framer on its own: http_response_extract applied to raw responses   *)
(* drawn from four families.                                               *)
(*   status   a well-formed status line with a 3-digit code                *)
(*   chunks   a chunked body built from a list of non-empty chunks         *)
(*   body     any body over BodyAlphabet, under a chunked or plain header  *)
(*   curated  responses whose body or header mentions the chunked marker   *)
(***************************************************************************)
DigitChar(d) ==
  CASE d = 0 -> "0" [] d = 1 -> "1" [] d = 2 -> "2" [] d = 3 -> "3"
    [] d = 4 -> "4" [] d = 5 -> "5" [] d = 6 -> "6" [] d = 7 -> "7"
    [] d = 8 -> "8" [] d = 9 -> "9" [] d = 10 -> "a" [] d = 11 -> "b"
    [] d = 12 -> "c" [] d = 13 -> "d" [] d = 14 -> "e" [] d = 15 -> "f"

RECURSIVE Numeral(_, _)
Numeral(n, base) ==
  IF n < base THEN <<DigitChar(n)>>
  ELSE Numeral(n \div base, base) \o <<DigitChar(n % base)>>

RECURSIVE Concat(_)
Concat(ss) == IF ss = <<>> THEN <<>> ELSE Head(ss) \o Concat(Tail(ss))

StringsUpTo(alphabet, n) == UNION {[1..k -> alphabet] : k \in 0..n}
ListsUpTo(set, n) == UNION {[1..k -> set] : k \in 1..n}

CRLF == <<CR, LF>>
StatusLineOk == <<"H", "T", "T", "P", "/", "1", ".", "1", " ", "2", "0", "0", " ", "O", "K">>
HeaderPlain == StatusLineOk \o CRLF \o <<"C", "o", "n", "t", "e", "n", "t", "-", "T", "y", "p", "e", ":", " ", "t", "e", "x", "t", "/", "p", "l", "a", "i", "n">>
HeaderChunked == StatusLineOk \o CRLF \o TE_CHUNKED
HeaderLowerCase == StatusLineOk \o CRLF \o <<"t", "r", "a", "n", "s", "f", "e", "r", "-", "e", "n", "c", "o", "d", "i", "n", "g", ":", " ", "c", "h", "u", "n", "k", "e", "d">>
Reasons == {<<"O", "K">>, <<"N", "o", "t", " ", "F", "o", "u", "n", "d">>}

StatusInputs ==
  {[kind |-> "status", code |-> c, chunks |-> <<>>,
    raw |-> <<"H", "T", "T", "P", "/", "1", ".", "1", " ">> \o Numeral(c, 10) \o <<" ">> \o reason
            \o CRLFCRLF \o <<"x">>] :
     c \in 100..599, reason \in Reasons}

(* hex size, CRLF, data, CRLF per chunk, then the zero-size chunk *)
EncodeChunk(c) == Numeral(Len(c), RADIX) \o CRLF \o c \o CRLF
EncodeChunks(cs) ==
  Concat([k \in 1..Len(cs) |-> EncodeChunk(cs[k])]) \o <<"0">> \o CRLFCRLF

ChunkAlphabet == {"1", LF}
LongChunk == <<"a", "b", "c", "d", "e", "f", "g", "h", "i", "j", "k", "l", "m", "n", "o", "p", "q">>
Chunks == (StringsUpTo(ChunkAlphabet, MaxChunkLen) \ {<<>>})
            \cup {LongChunk, CRLF}

ChunkInputs ==
  {[kind |-> "chunks", code |-> 0, chunks |-> cs,
    raw |-> HeaderChunked \o CRLFCRLF \o EncodeChunks(cs)] :
     cs \in ListsUpTo(Chunks, MaxChunks)}

BodyAlphabet == {"2", "a", "z", CR, LF}

BodyInputs ==
  {[kind |-> "body", code |-> 0, chunks |-> <<>>,
    raw |-> h \o CRLFCRLF \o b] :
     h \in {HeaderPlain, HeaderChunked}, b \in StringsUpTo(BodyAlphabet, MaxBody)}

CuratedInputs ==
  {[kind |-> "curated", code |-> 0, chunks |-> <<>>,
    raw |-> h \o CRLFCRLF \o b] :
     h \in {HeaderPlain, HeaderLowerCase, HeaderChunked},
     b \in {TE_CHUNKED,
            <<"3", CR, LF, "T", "r", "a", "n", "s", "f", "e", "r", "-", "E", "n", "c", "o", "d", "i", "n", "g", ":", " ", "c", "h", "u", "n", "k", "e", "d">>,
            <<"-", "2", CR, LF, "a", "b">>,
            <<" ", "+", "2", CR, LF, "a", "b">>,
            <<"0", "x", "2", CR, LF, "a", "b", CR, LF, "0", "X", CR, LF>>,
            <<"5", CR, LF, "H", "e", "l", "l", "o", CR, LF, "0", CR, LF, CR, LF>>}}

(***************************************************************************)
(* Chunked bodies that end the decoding early: the encoded chunks cs, then *)
(* a size line whose size is not positive (zero, negative, not             *)
(* hexadecimal; with or without further input behind it), or a size line   *)
(* with a positive size and no line feed in what follows.                  *)
(***************************************************************************)
StopInputs ==
  {[kind |-> "stop", code |-> 0, chunks |-> cs,
    raw |-> HeaderChunked \o CRLFCRLF
            \o Concat([k \in 1..Len(cs) |-> EncodeChunk(cs[k])]) \o tail] :
     cs \in {<<>>} \cup ListsUpTo({<<"1">>, LongChunk}, MaxChunks),
     tail \in {<<"0", CR, LF, CR, LF>>,
               <<"0">>,
               <<"-", "2", CR, LF, "a", "b">>,
               <<"z", "z", CR, LF>>,
               <<"0", CR, LF, CR, LF, "5", CR, LF, "H", "e", "l", "l", "o", CR, LF>>}}

UnterminatedInputs ==
  {[kind |-> "unterminated", code |-> 0, chunks |-> cs,
    raw |-> HeaderChunked \o CRLFCRLF
            \o Concat([k \in 1..Len(cs) |-> EncodeChunk(cs[k])]) \o tail] :
     cs \in {<<>>} \cup ListsUpTo({<<"1">>, LongChunk}, MaxChunks),
     tail \in {<<"5">>, <<"1", "f">>, <<"5", CR>>, <<"5", ";", "x">>}}

FramerInputs ==
  StatusInputs \cup ChunkInputs \cup BodyInputs \cup CuratedInputs
    \cup StopInputs \cup UnterminatedInputs

FramerInit ==
  /\ GetIdle /\ ThreadsIdle /\ ListviewIdle /\ PrayerIdle
  /\ fpc = "ready"
  /\ fres = NULL
  /\ \E inp \in FramerInputs :
       /\ given = Ptr([kind |-> inp.kind, code |-> inp.code,
                       chunks |-> inp.chunks])
       /\ fraw = Ptr(inp.raw)

FramerExtract ==
  /\ fpc = "ready"
  /\ \E headerMallocOk \in BOOLEAN, bodyMallocOk \in BOOLEAN :
       fres' = Ptr(http_response_extract(fraw, headerMallocOk, bodyMallocOk))
  /\ fpc' = "done"
  /\ UNCHANGED <<given, fraw, getVars, threadVars, uiVars, prayerVars>>

FramerNext == FramerExtract

SpecFramer == FramerInit /\ [][FramerNext]_vars

(***************************************************************************)
(* list_filter on its own: an items array of up to MaxItems entries, the   *)
(* i-th with the id FilterIds[i] and a name of FilterNames, and a query    *)
(* over QueryAlphabet; one call of list_filter, whose malloc may fail.     *)
(***************************************************************************)
FilterIds == <<"1301", "1302", "1303", "1304", "1305">>
FilterNames == {<<"A", "b">>, <<"A", "B">>, <<"B">>, <<"a", "-", "b">>}
QueryAlphabet == {"a", "b", "B"}

FilterInit ==
  /\ GetIdle /\ FramerIdle /\ ThreadsIdle /\ PrayerIdle
  /\ lpc = "filter"
  /\ \E names \in StringsUpTo(FilterNames, MaxItems) :
       /\ items = [i \in 1..Len(names) |-> [id |-> FilterIds[i], name |-> names[i]]]
       /\ items0 = items
  /\ input \in StringsUpTo(QueryAlphabet, MaxQuery)
  /\ selected = 0 /\ current_index = 0 /\ offset = 0
  /\ vmode = "NORMAL" /\ current_mode = "DEFAULT"
  /\ term_height = 0 /\ frame = NULL /\ ended = "no" /\ scored = FALSE
  /\ term_ev = NULL

FilterApply ==
  /\ lpc = "filter"
  /\ \E mallocOk \in BOOLEAN :
       /\ items' \in list_filter(items, Len(items), input, mallocOk)
       /\ scored' = (mallocOk /\ Len(items) > 0)
  /\ lpc' = "filtered"
  /\ UNCHANGED <<items0, input, selected, current_index, offset, vmode,
                 current_mode, term_height, frame, ended, term_ev>>
  /\ UNCHANGED <<getVars, framerVars, threadVars, prayerVars>>

FilterNext == FilterApply

SpecFilter == FilterInit /\ [][FilterNext]_vars

(***************************************************************************)
(* listview().  An event is what tb_poll_event stores in term_ev: its      *)
(* type, its key ("0" when the event carries a character) and its ch (NUL  *)
(* when it carries a key); a resize event also tells the height that       *)
(* tb_height() returns from then on.                                       *)
(***************************************************************************)
TermHeights == {9, 12}

Events ==
  {[type |-> "TB_EVENT_KEY", key |-> k, ch |-> NUL] :
     k \in {"TB_KEY_ESC", "TB_KEY_ENTER", "TB_KEY_CTRL_U", "TB_KEY_CTRL_D",
            "TB_KEY_ARROW_UP", "TB_KEY_ARROW_DOWN", "TB_KEY_PGUP",
            "TB_KEY_PGDN", "TB_KEY_HOME", "TB_KEY_END", "TB_KEY_CTRL_SLASH",
            "TB_KEY_SPACE", "TB_KEY_DELETE", "TB_KEY_BACKSPACE",
            "TB_KEY_BACKSPACE2"}}
  \cup {[type |-> "TB_EVENT_KEY", key |-> "0", ch |-> c] :
          c \in {"j", "k", "g", "G", "/", "i", "q"}}
  \cup {[type |-> "TB_EVENT_MOUSE", key |-> k, ch |-> NUL] :
          k \in {"TB_KEY_MOUSE_LEFT", "TB_KEY_MOUSE_WHEEL_UP",
                 "TB_KEY_MOUSE_WHEEL_DOWN"}}
  \cup {[type |-> "TB_EVENT_RESIZE", key |-> "0", ch |-> NUL, height |-> h] :
          h \in TermHeights}

(* the array main hands to listview: ids and names of cities *)
ListItems ==
  <<[id |-> "1301", name |-> <<"J", "K">>],
    [id |-> "1302", name |-> <<"G", "/">>],
    [id |-> "1303", name |-> <<"Q", " ", "I">>]>>

(* lines 138-190; the result is the return value and *current_index *)
default_motion(item_count, index, visible_lines, ev) ==
  IF ev.type \notin {"TB_EVENT_KEY", "TB_EVENT_MOUSE"}
  THEN [ret |-> 0, current_index |-> index]
  ELSE CASE ev.key \in {"TB_KEY_MOUSE_WHEEL_UP", "TB_KEY_ARROW_UP"} ->
              [ret |-> 0, current_index |-> IF index > 0 THEN index - 1 ELSE index]
         [] ev.key \in {"TB_KEY_MOUSE_WHEEL_DOWN", "TB_KEY_ARROW_DOWN"} ->
              [ret |-> 0,
               current_index |-> IF index < item_count - 1 THEN index + 1 ELSE index]
         [] ev.key = "TB_KEY_PGUP" ->
              [ret |-> 0,
               current_index |-> IF index - visible_lines < 0 THEN 0
                                 ELSE index - visible_lines]
         [] ev.key = "TB_KEY_PGDN" ->
              [ret |-> 0,
               current_index |-> IF index + visible_lines >= item_count
                                 THEN item_count - 1 ELSE index + visible_lines]
         [] ev.key = "TB_KEY_HOME" -> [ret |-> 0, current_index |-> 0]
         [] ev.key = "TB_KEY_END" -> [ret |-> 0, current_index |-> item_count - 1]
         [] ev.key \in {"TB_KEY_MOUSE_LEFT", "TB_KEY_ENTER"} ->
              [ret |-> 1, current_index |-> index]
         [] ev.key = "TB_KEY_ESC" -> [ret |-> 0 - 1, current_index |-> index]
         [] OTHER -> [ret |-> 0, current_index |-> index]

(* lines 80-117: the switch on ev.ch, the bindings of uikit.h lines 29-35 *)
vim_binding(item_count, index, mode, ev) ==
  CASE ev.ch = "k" ->
         [ret |-> 0, mode |-> mode,
          current_index |-> IF index > 0 /\ mode = "NORMAL" THEN index - 1 ELSE index]
    [] ev.ch = "j" ->
         [ret |-> 0, mode |-> mode,
          current_index |-> IF index < item_count - 1 /\ mode = "NORMAL"
                            THEN index + 1 ELSE index]
    [] ev.ch = "g" ->
         [ret |-> 0, mode |-> mode,
          current_index |-> IF mode = "NORMAL" THEN 0 ELSE index]
    [] ev.ch = "G" ->
         [ret |-> 0, mode |-> mode,
          current_index |-> IF mode = "NORMAL" THEN item_count - 1 ELSE index]
    [] ev.ch = "/" ->
         IF mode = "NORMAL" THEN [ret |-> 2, mode |-> "SEARCH", current_index |-> index]
         ELSE [ret |-> 0, mode |-> mode, current_index |-> index]
    [] ev.ch = "i" ->
         IF mode = "NORMAL" THEN [ret |-> 2, mode |-> "INSERT", current_index |-> index]
         ELSE [ret |-> 0, mode |-> mode, current_index |-> index]
    [] ev.ch = "q" ->
         [ret |-> IF mode = "NORMAL" THEN 0 - 1 ELSE 0, mode |-> mode,
          current_index |-> index]
    [] OTHER -> [ret |-> 0, mode |-> mode, current_index |-> index]

(* vim_motion whose Ctrl+U pages up in every vim mode *)
vim_motion_PageUpInAnyMode(item_count, index, mode, visible_lines, ev) ==
  IF ev.type # "TB_EVENT_KEY"
  THEN [ret |-> 0, mode |-> mode, current_index |-> index]
  ELSE CASE ev.key = "TB_KEY_ESC" ->
              [ret |-> 0, mode |-> "NORMAL", current_index |-> index]
         [] ev.key = "TB_KEY_ENTER" ->
              [ret |-> 1, mode |-> mode, current_index |-> index]
         [] ev.key = "TB_KEY_CTRL_U" ->
              [ret |-> 0, mode |-> mode,
               current_index |-> IF index - visible_lines < 0 THEN 0
                                 ELSE index - visible_lines]
         [] ev.key = "TB_KEY_CTRL_D" ->
              [ret |-> 0, mode |-> mode,
               current_index |-> IF mode # "NORMAL" THEN index
                                 ELSE IF index + visible_lines >= item_count
                                 THEN item_count - 1 ELSE index + visible_lines]
         [] OTHER -> vim_binding(item_count, index, mode, ev)

(* lines 46-121; the result is the return value, *current_index and *mode *)
vim_motion(item_count, index, mode, visible_lines, ev) ==
  IF ev.type # "TB_EVENT_KEY"
  THEN [ret |-> 0, mode |-> mode, current_index |-> index]
  ELSE CASE ev.key = "TB_KEY_ESC" ->
              [ret |-> 0, mode |-> "NORMAL", current_index |-> index]
         [] ev.key = "TB_KEY_ENTER" ->
              [ret |-> 1, mode |-> mode, current_index |-> index]
         [] ev.key = "TB_KEY_CTRL_U" ->
              [ret |-> 0, mode |-> mode,
               current_index |-> IF mode # "NORMAL" THEN index
                                 ELSE IF index - visible_lines < 0 THEN 0
                                 ELSE index - visible_lines]
         [] ev.key = "TB_KEY_CTRL_D" ->
              [ret |-> 0, mode |-> mode,
               current_index |-> IF mode # "NORMAL" THEN index
                                 ELSE IF index + visible_lines >= item_count
                                 THEN item_count - 1 ELSE index + visible_lines]
         [] OTHER -> vim_binding(item_count, index, mode, ev)

(* lines 203-229; the result is the content of input *)
inputtext_handler(text, input_size, ev) ==
  IF ev.type # "TB_EVENT_KEY" THEN text
  ELSE CASE ev.key = "TB_KEY_SPACE" ->
              IF Len(text) < input_size - 1 THEN Append(text, " ") ELSE text
         [] ev.key \in {"TB_KEY_DELETE", "TB_KEY_BACKSPACE2", "TB_KEY_BACKSPACE"} ->
              IF Len(text) > 0 THEN SubSeq(text, 1, Len(text) - 1) ELSE text
         [] OTHER ->
              IF Len(text) < input_size - 1 /\ ev.ch \in DOMAIN Ord
              THEN Append(text, ev.ch) ELSE text

(* lines 399-405: the value scrollbar leaves in *offset *)
scrollbar_scroll(index, visible_lines, off) ==
  IF index >= off + visible_lines THEN index - visible_lines + 1 ELSE off
scrollbar(index, item_count, visible_lines, off) ==
  scrollbar_scroll(index, visible_lines, IF index < off THEN index ELSE off)

(***************************************************************************)
(* lines 507-517: the rows the draw loop prints, each the name of an item  *)
(* and whether it is printed highlighted.  The loop stops at the first i   *)
(* with i >= visible_lines or off + i >= item_count; with a negative off   *)
(* it reads items[off + i] before the array: what name it then prints is   *)
(* not determined, "?" stands for it.                                      *)
(***************************************************************************)
DrawnCount(off, visible_lines, item_count) ==
  IF visible_lines <= 0 \/ off >= item_count THEN 0
  ELSE IF item_count - off < visible_lines THEN item_count - off
  ELSE visible_lines
ReadsBeforeArray(off, visible_lines, item_count) ==
  off < 0 /\ DrawnCount(off, visible_lines, item_count) > 0
DrawnRows(list, index, off, visible_lines) ==
  [i \in 1..DrawnCount(off, visible_lines, Len(list)) |->
     [name |-> IF off + i >= 1 THEN list[off + i].name ELSE <<"?">>,
      highlighted |-> (off + i - 1 = index)]]

ListviewInit ==
  /\ GetIdle /\ FramerIdle /\ ThreadsIdle /\ PrayerIdle
  /\ lpc = "render"
  /\ \E count \in 1..Len(ListItems) : items = SubSeq(ListItems, 1, count)
  /\ items0 = items
  /\ input = <<>>
  /\ selected = 0
  /\ current_index = selected
  /\ offset = 0
  /\ vmode = "NORMAL" /\ current_mode = "DEFAULT"
  /\ term_height \in TermHeights
  /\ frame = NULL /\ ended = "no" /\ scored = FALSE /\ term_ev = NULL

(* lines 470-522: one frame, from tb_clear to tb_present *)
ListviewRender ==
  /\ lpc = "render"
  /\ ~ReadsBeforeArray(offset, term_height - 10, Len(items))
  /\ \E mallocOk \in BOOLEAN :
       items' \in list_filter(items, Len(items), input, mallocOk)
  /\ frame' = Ptr(DrawnRows(items', current_index, offset, term_height - 10))
  /\ offset' = scrollbar(current_index, Len(items), term_height - 10, offset)
  /\ lpc' = "poll"
  /\ UNCHANGED <<items0, input, selected, current_index, vmode, current_mode,
                 term_height, ended, scored, term_ev>>
  /\ UNCHANGED <<getVars, framerVars, threadVars, prayerVars>>

(***************************************************************************)
(* lines 506-509 with a negative offset: items[idx] is read before the     *)
(* start of the array.  The read faults, or it yields some pointer and the *)
(* row shows whatever that points to.                                      *)
(***************************************************************************)
ListviewRenderOutOfBounds ==
  /\ lpc = "render"
  /\ ReadsBeforeArray(offset, term_height - 10, Len(items))
  /\ \E mallocOk \in BOOLEAN :
       items' \in list_filter(items, Len(items), input, mallocOk)
  /\ \/ lpc' = "crashed" /\ UNCHANGED <<frame, offset>>
     \/ /\ lpc' = "poll"
        /\ frame' = Ptr(DrawnRows(items', current_index, offset, term_height - 10))
        /\ offset' = scrollbar(current_index, Len(items), term_height - 10, offset)
  /\ UNCHANGED <<items0, input, selected, current_index, vmode, current_mode,
                 term_height, ended, scored, term_ev>>
  /\ UNCHANGED <<getVars, framerVars, threadVars, prayerVars>>

(* lines 529-541 and 567: an event in DEFAULT motion mode *)
ListviewDefaultEvent(ev, height, motion) ==
  /\ current_mode = "DEFAULT"
  /\ motion.current_index \in (0 - MaxIndex)..MaxIndex
  /\ term_height' = height
  /\ current_index' = motion.current_index
  /\ selected' = IF motion.ret = 1 THEN motion.current_index ELSE selected
  /\ ended' = IF motion.ret < 0 THEN "quit"
              ELSE IF motion.ret = 1 THEN "confirm" ELSE "no"
  /\ current_mode' = IF ev.key = "TB_KEY_CTRL_SLASH" THEN "VIM" ELSE "DEFAULT"
  /\ input' = inputtext_handler(input, INPUT_SIZE, ev)
  /\ lpc' = IF motion.ret < 0 \/ motion.ret = 1 THEN "done" ELSE "render"
  /\ UNCHANGED <<items, items0, offset, vmode, frame, scored, term_ev>>
  /\ UNCHANGED <<getVars, framerVars, threadVars, prayerVars>>

(* lines 542-567: an event in VIM motion mode; motion 2 takes the continue *)
ListviewVimEvent(ev, height, motion) ==
  /\ current_mode = "VIM"
  /\ motion.current_index \in (0 - MaxIndex)..MaxIndex
  /\ term_height' = height
  /\ current_index' = motion.current_index
  /\ vmode' = motion.mode
  /\ selected' = IF motion.ret = 1 THEN motion.current_index ELSE selected
  /\ ended' = IF motion.ret < 0 THEN "quit"
              ELSE IF motion.ret = 1 THEN "confirm" ELSE "no"
  /\ current_mode' = IF motion.ret # 2 /\ ev.key = "TB_KEY_CTRL_SLASH"
                     THEN "DEFAULT" ELSE "VIM"
  /\ input' = IF motion.ret = 2 THEN input
              ELSE inputtext_handler(
                     IF motion.mode = "NORMAL" /\ current_mode' = "VIM"
                     THEN <<>> ELSE input, INPUT_SIZE, ev)
  /\ lpc' = IF motion.ret < 0 \/ motion.ret = 1 THEN "done" ELSE "render"
  /\ UNCHANGED <<items, items0, offset, frame, scored, term_ev>>
  /\ UNCHANGED <<getVars, framerVars, threadVars, prayerVars>>

HeightAfter(ev) == IF ev.type = "TB_EVENT_RESIZE" THEN ev.height ELSE term_height

(* lines 524-526: tb_poll_event returns an event and the loop handles it *)
ListviewEvent ==
  /\ lpc = "poll"
  /\ \E ev \in Events :
       \/ ListviewDefaultEvent(ev, HeightAfter(ev),
            default_motion(Len(items), current_index, HeightAfter(ev) - 10, ev))
       \/ ListviewVimEvent(ev, HeightAfter(ev),
            vim_motion(Len(items), current_index, vmode, HeightAfter(ev) - 10, ev))

ListviewNext == ListviewRender \/ ListviewRenderOutOfBounds \/ ListviewEvent

SpecListview == ListviewInit /\ [][ListviewNext]_vars

(***************************************************************************)
(* vim_motion on its own: one call with an event of Events, on a list of   *)
(* one to three items, with every index listview can hold (a page key on   *)
(* a short terminal takes it out of 0..item_count - 1), in each vim mode.  *)
(* ended records the value returned: "quit" for -1, "confirm" for 1,       *)
(* "continue" for 2, because listview takes its continue on it.            *)
(***************************************************************************)
MotionEnded(motion) ==
  IF motion < 0 THEN "quit" ELSE IF motion = 1 THEN "confirm"
  ELSE IF motion = 2 THEN "continue" ELSE "no"

VimMotionInit ==
  /\ GetIdle /\ FramerIdle /\ ThreadsIdle /\ PrayerIdle
  /\ lpc = "motion"
  /\ \E count \in 1..Len(ListItems) : items = SubSeq(ListItems, 1, count)
  /\ items0 = items
  /\ input = <<>>
  /\ selected = 0
  /\ current_index \in (0 - MaxIndex)..MaxIndex
  /\ offset = 0
  /\ vmode \in {"NORMAL", "INSERT", "SEARCH"} /\ current_mode = "VIM"
  /\ term_height \in TermHeights
  /\ frame = NULL /\ ended = "no" /\ scored = FALSE
  /\ \E ev \in Events : term_ev = Ptr(ev)

VimMotionCall ==
  /\ lpc = "motion"
  /\ LET ev == Deref(term_ev)
         motion == vim_motion(Len(items), current_index, vmode,
                              HeightAfter(ev) - 10, ev)
     IN /\ current_index' = motion.current_index
        /\ vmode' = motion.mode
        /\ ended' = MotionEnded(motion.ret)
        /\ term_height' = HeightAfter(ev)
  /\ lpc' = "moved"
  /\ UNCHANGED <<items, items0, input, selected, offset, current_mode, frame,
                 scored, term_ev>>
  /\ UNCHANGED <<getVars, framerVars, threadVars, prayerVars>>

VimMotionNext == VimMotionCall

SpecVimMotion == VimMotionInit /\ [][VimMotionNext]_vars

(***************************************************************************)
(* get_prayer_times.  The body of the response holds a document of         *)
(* JsonDocs: valid says whether json_decode accepts it, path whether       *)
(* "request" is an object with a string "path", data whether "data" is     *)
(* missing, an object or something else, lokasi and daerah whether those   *)
(* members of "data" are strings, jadwal the array of schedule entries     *)
(* (NULL when "jadwal" is not an array), each entry given by the set of    *)
(* its members that are strings, named by the field they are copied to.    *)
(***************************************************************************)
EntryShapes == {{}, {"date"}, ScheduleFields}
JsonDocs ==
  {[valid |-> FALSE, path |-> FALSE, data |-> "absent", lokasi |-> FALSE,
    daerah |-> FALSE, jadwal |-> NULL]}
    \cup {d \in [valid : {TRUE}, path : BOOLEAN,
                 data : {"absent", "other", "object"},
                 lokasi : BOOLEAN, daerah : BOOLEAN,
                 jadwal : {NULL} \cup {Ptr(a) : a \in StringsUpTo(EntryShapes, MaxSchedule)}] :
            d.data # "object" => (~d.lokasi /\ ~d.daerah /\ d.jadwal = NULL)}

(* the calls of calloc and strndup that fail in one call of parse_json *)
RECURSIVE SubsetsUpTo(_, _)
SubsetsUpTo(S, n) ==
  IF n = 0 THEN {{}}
  ELSE LET smaller == SubsetsUpTo(S, n - 1)
       IN smaller \cup {fewer \cup {x} : fewer \in smaller, x \in S}
AllocFailures == SubsetsUpTo(Blocks, MaxAllocFailures)
Alloc(b, fails) == IF b \in fails THEN NULL ELSE b

(* free(p): free(NULL) does nothing *)
free(fr, p) == [b \in DOMAIN fr |-> IF b = p THEN fr[b] + 1 ELSE fr[b]]

(* lines 8-150; the result is the return value, *dest and the free counts *)
parse_json(body, json, dest0, fails, fr) ==
  IF body = NULL \/ ~json.valid
  THEN [ret |-> 0 - 1, dest |-> dest0, frees |-> fr]
  ELSE
  LET request_ptr == Alloc(<<"request", 0>>, fails)
  IN
  IF json.path /\ request_ptr = NULL
  THEN [ret |-> 0 - 1, dest |-> dest0, frees |-> fr]
  ELSE
  LET dest1 == IF json.path
               THEN [dest0 EXCEPT !.req.path = Alloc(<<"path", 0>>, fails)]
               ELSE dest0
      fr1 == IF json.path THEN free(fr, request_ptr) ELSE fr
      data == Alloc(<<"data", 0>>, fails)
  IN
  IF data = NULL
  THEN [ret |-> 0 - 1, dest |-> dest1, frees |-> fr1]
  ELSE IF json.data = "absent"
  THEN [ret |-> 0 - 1, dest |-> dest1,
        frees |-> free(free(fr1, dest1.req.path), data)]
  ELSE IF json.data # "object"
  THEN [ret |-> 0, dest |-> [dest1 EXCEPT !.data = ZeroedData],
        frees |-> free(fr1, data)]
  ELSE
  LET location == IF json.lokasi THEN Alloc(<<"location", 0>>, fails) ELSE NULL
      province == IF json.daerah THEN Alloc(<<"province", 0>>, fails) ELSE NULL
  IN
  IF json.jadwal = NULL
  THEN [ret |-> 0,
        dest |-> [dest1 EXCEPT !.data = [ZeroedData EXCEPT !.location = location,
                                                           !.province = province]],
        frees |-> free(fr1, data)]
  ELSE
  LET child == Deref(json.jadwal)
      count == Len(child)
      calloc == Alloc(<<"schedule", 0>>, fails)
  IN
  IF calloc = NULL
  THEN [ret |-> 0 - 1, dest |-> dest1,
        frees |-> free(free(free(free(fr1, dest1.req.path), location),
                            province), data)]
  ELSE
  [ret |-> 0,
   dest |-> [dest1 EXCEPT !.data =
               [location |-> location, province |-> province,
                schedule_size |-> count,
                schedule |-> Ptr([index \in 1..count |->
                                   [f \in ScheduleFields |->
                                      IF f \in child[index]
                                      THEN Alloc(<<f, index>>, fails)
                                      ELSE NULL]])]],
   frees |-> free(fr1, data)]

(* lines 204-225 *)
get_prayer_times_free(p, fr) ==
  LET fr1 == free(free(free(fr, p.req.path), p.data.location), p.data.province)
  IN
  IF p.data.schedule_size > 0
  THEN LET schedule == Deref(p.data.schedule)
           fr2 == [b \in DOMAIN fr1 |->
                     fr1[b] + Cardinality({e \in ScheduleFields \X (1..p.data.schedule_size) :
                                             schedule[e[2]][e[1]] = b})]
       IN free(fr2, <<"schedule", 0>>)
  ELSE fr1

(* connection.c lines 256-264 *)
http_response_free(resp, fr) == free(free(fr, resp.header), resp.body)

(* a second free of a block is undefined: the allocator may stop the      *)
(* process there or let it run on                                         *)
DoubleFreed(fr) == \E b \in DOMAIN fr : fr[b] > 1
AfterFree(fr, next) == IF DoubleFreed(fr) THEN {"abort", next} ELSE {next}

PrayerInit ==
  /\ GetIdle /\ FramerIdle /\ ThreadsIdle /\ ListviewIdle
  /\ ppc = "get"
  /\ json_str \in JsonDocs
  /\ http_resp = [header |-> NULL, body |-> NULL]
  /\ prayer_t = ZeroedPrayer
  /\ frees = [b \in Blocks |-> 0]
  /\ get_prayer = 0

(* lines 178-186: get fills the response or fails; it returns 0 when the  *)
(* header or the body was extracted                                       *)
PrayerGet ==
  /\ ppc = "get"
  /\ \E get_request \in {0 - 1, 0} :
     \E header \in {NULL, <<"header", 0>>}, body \in {NULL, <<"body", 0>>} :
       /\ get_request = 0 => (header # NULL \/ body # NULL)
       /\ get_request < 0 => (header = NULL /\ body = NULL)
       /\ http_resp' = [header |-> header, body |-> body]
       /\ ppc' = IF get_request < 0 THEN "returned" ELSE "parse"
       /\ get_prayer' = get_request
  /\ UNCHANGED <<json_str, prayer_t, frees>>
  /\ UNCHANGED <<getVars, framerVars, threadVars, uiVars>>

(* lines 188-192 *)
PrayerParse ==
  /\ ppc = "parse"
  /\ \E fails \in AllocFailures :
       LET parse == parse_json(http_resp.body, json_str, ZeroedPrayer, fails, frees)
       IN /\ prayer_t' = parse.dest
          /\ frees' = parse.frees
          /\ ppc' = IF parse.ret < 0 THEN "free" ELSE "response_free"
          /\ get_prayer' = parse.ret
  /\ UNCHANGED <<json_str, http_resp>>
  /\ UNCHANGED <<getVars, framerVars, threadVars, uiVars>>

(* line 194 *)
PrayerFree ==
  /\ ppc = "free"
  /\ frees' = get_prayer_times_free(prayer_t, frees)
  /\ ppc' \in AfterFree(frees', "response_free")
  /\ UNCHANGED <<json_str, http_resp, prayer_t, get_prayer>>
  /\ UNCHANGED <<getVars, framerVars, threadVars, uiVars>>

(* lines 195-196 and 199-201 *)
PrayerResponseFree ==
  /\ ppc = "response_free"
  /\ frees' = http_response_free(http_resp, frees)
  /\ ppc' \in AfterFree(frees', "returned")
  /\ UNCHANGED <<json_str, http_resp, prayer_t, get_prayer>>
  /\ UNCHANGED <<getVars, framerVars, threadVars, uiVars>>

(* main.c lines 79-99: main frees the result of a successful call *)
MainFree ==
  /\ ppc = "returned" /\ get_prayer = 0
  /\ frees' = get_prayer_times_free(prayer_t, frees)
  /\ ppc' \in AfterFree(frees', "exit")
  /\ UNCHANGED <<json_str, http_resp, prayer_t, get_prayer>>
  /\ UNCHANGED <<getVars, framerVars, threadVars, uiVars>>

PrayerNext ==
  PrayerGet \/ PrayerParse \/ PrayerFree \/ PrayerResponseFree \/ MainFree

SpecPrayer == PrayerInit /\ [][PrayerNext]_vars

(***************************************************************************)
(* Vocabulary of the properties.                                           *)
(***************************************************************************)
HasSeparator(raw) == strstr(raw, CRLFCRLF) # 0
HeaderBlock(raw) == SubSeq(raw, 1, strstr(raw, CRLFCRLF) - 1)
RawBody(raw) == SubSeq(raw, strstr(raw, CRLFCRLF) + 4, Len(raw))
FirstLine(h) == IF strstr(h, CRLF) = 0 THEN h
                ELSE SubSeq(h, 1, strstr(h, CRLF) - 1)
CountSpaces(s) == Cardinality({i \in 1..Len(s) : s[i] = " "})

(* get() has returned after framing the accumulated response *)
Framed == pc = "returned" /\ extracted # NULL
(* the bytes accumulated by the read loop *)
Accumulated == SubSeq(response, 1, total)
(* the reads delivered so far, concatenated *)
Delivered == SubSeq(wire, 1, pos)

FramerDone == fpc = "done"
FRaw == Deref(fraw)
FRes == Deref(fres)
FGiven == Deref(given)

(***************************************************************************)
(* C1: for every raw response that selects chunked decoding, the decoder   *)
(* reads no byte beyond the terminator of the raw response and writes no   *)
(* byte beyond the strlen(body)+1 bytes of its output buffer.              *)
(***************************************************************************)
C1_ChunkedDecodeInBounds ==
  (FramerDone /\ FRes.chunked) => (~FRes.overread /\ ~FRes.overwrite)

(***************************************************************************)
(* C2: on every exit path of get on which fsocket returned a valid         *)
(* descriptor, that descriptor has been closed exactly once.               *)
(***************************************************************************)
C2_SocketClosedExactlyOnce ==
  (pc = "returned" /\ sockfd >= 0) => closes = 1

(***************************************************************************)
(* C3: get never returns a partial HttpResponse: when it returns 0, *dest  *)
(* holds a non-NULL header and a non-NULL body; when it returns -1, *dest  *)
(* has not been written.                                                   *)
(***************************************************************************)
C3_NoPartialResponse ==
  pc = "returned" =>
    /\ ret = 0 => (dest # NULL /\ Deref(dest).header # NULL
                              /\ Deref(dest).body # NULL)
    /\ ret = -1 => dest = NULL

(***************************************************************************)
(* C4: for every well-formed status line with a 3-digit code c in          *)
(* 100..599, the status stored in the http_response equals c (the header   *)
(* having been allocated).                                                 *)
(***************************************************************************)
C4_StatusStored ==
  (FramerDone /\ FGiven.kind = "status" /\ FRes.header # NULL)
    => FRes.status = FGiven.code

(***************************************************************************)
(* C5: when the accumulated byte stream contains no CRLFCRLF (the empty    *)
(* stream included), get returns -1, writes no HttpResponse and leaves no  *)
(* extracted header or body allocated.                                     *)
(***************************************************************************)
C5_NoSeparatorFails ==
  (Framed /\ ~HasSeparator(Accumulated)) =>
    /\ ret = -1
    /\ dest = NULL
    /\ Deref(extracted).header = NULL
    /\ Deref(extracted).body = NULL

C5_Witness ==
  /\ Framed /\ ~HasSeparator(Accumulated) /\ total > 0
  /\ ret = -1 /\ dest = NULL

(***************************************************************************)
(* C6: when the first line of the header block holds fewer than two        *)
(* spaces, get returns -1 and produces no HttpResponse (stated for the     *)
(* calls whose extraction allocations all succeed).                        *)
(***************************************************************************)
C6_MalformedStatusLineFails ==
  (/\ Framed
   /\ HasSeparator(CStr(Accumulated))
   /\ CountSpaces(FirstLine(HeaderBlock(CStr(Accumulated)))) < 2
   /\ Deref(extracted).header # NULL
   /\ Deref(extracted).body # NULL)
    => (ret = -1 /\ dest = NULL)

(***************************************************************************)
(* C7: the body is chunk-decoded if and only if the header block contains  *)
(* 'Transfer-Encoding: chunked'; otherwise the returned body is the bytes  *)
(* that follow the separator.                                              *)
(***************************************************************************)
C7_ChunkedIffHeaderSaysSo ==
  (FramerDone /\ HasSeparator(FRaw) /\ FRes.header # NULL
              /\ FRes.body # NULL) =>
    /\ FRes.chunked <=> (strstr(HeaderBlock(FRaw), TE_CHUNKED) # 0)
    /\ strstr(HeaderBlock(FRaw), TE_CHUNKED) = 0
         => Deref(FRes.body) = RawBody(FRaw)

(***************************************************************************)
(* C8: chunked round trip: decoding the body built from a list of          *)
(* non-empty chunks (hex size, CRLF, data, CRLF each, then the zero-size   *)
(* chunk) yields the concatenation of the chunk data in order, within the  *)
(* bounds of both buffers.                                                 *)
(***************************************************************************)
C8_ChunkedRoundTrip ==
  (FramerDone /\ FGiven.kind = "chunks" /\ FRes.body # NULL) =>
    /\ FRes.chunked
    /\ ~FRes.overread /\ ~FRes.overwrite
    /\ Deref(FRes.body) = Concat(FGiven.chunks)

C8_Witness ==
  /\ FramerDone /\ FGiven.kind = "chunks" /\ FRes.body # NULL
  /\ Len(FGiven.chunks) >= 2
  /\ FGiven.chunks[1] = LongChunk
  /\ FGiven.chunks[2] = <<CR, LF>>
  /\ Deref(FRes.body) = LongChunk \o <<CR, LF>>

(***************************************************************************)
(* C9: after any sequence of positive-length reads, the buffer handed to   *)
(* the framer holds the concatenation of the reads in order followed by    *)
(* one terminating zero byte, every byte written below the capacity.       *)
(***************************************************************************)
C9_BufferIsConcatenation ==
  /\ (pc = "read" /\ nreads > 0) =>
       (~oob /\ total = pos /\ total < capacity /\ response = Delivered)
  /\ (pc = "extract" /\ nreads > 0) =>
       /\ ~oob
       /\ total = pos
       /\ total < capacity
       /\ response = Delivered \o <<NUL>>

C9_Witness ==
  /\ pc = "extract" /\ nreads >= 3 /\ total > 2 * CHUNK_SIZE
  /\ lastRv = 0
  /\ response = wire \o <<NUL>>

(***************************************************************************)
(* C10: when realloc fails in the read loop, get returns -1 without        *)
(* writing *dest; the accumulated bytes, the TLS session, the TLS context  *)
(* and the socket have been released and nothing has been framed.          *)
(***************************************************************************)
C10_ReallocFailureReleasesAll ==
  (pc = "returned" /\ reallocFailed) =>
    /\ ret = -1
    /\ dest = NULL
    /\ respSt # "live"
    /\ ssl = "freed"
    /\ ctx = "freed"
    /\ closes = 1
    /\ extracted = NULL

C10_Witness ==
  /\ pc = "returned" /\ reallocFailed /\ total > CHUNK_SIZE
  /\ respSt = "freed" /\ ret = -1

(***************************************************************************)
(* C11: on every return of get, success or failure, the TLS context, the   *)
(* socket, the TLS session, the request buffer and the raw response buffer *)
(* acquired in that call have been released; only the HttpResponse written *)
(* to *dest on success is left to the caller.                              *)
(***************************************************************************)
C11_AllReleasedOnReturn ==
  pc = "returned" =>
    /\ ctx # "live"
    /\ ssl # "live"
    /\ request # "live"
    /\ respSt # "live"
    /\ sockfd >= 0 => closes >= 1
    /\ ret = -1 => dest = NULL

C11_Witness ==
  /\ pc = "returned" /\ ret = 0 /\ dest # NULL
  /\ ctx = "freed" /\ ssl = "freed" /\ request = "freed"
  /\ respSt = "freed" /\ sockfd >= 0 /\ closes = 1

(* the step log holds an entry for a step and its outcome *)
HasStep(name, ok) == \E i \in 1..Len(steps) : steps[i] = Step(name, ok)

(***************************************************************************)
(* C13: when hostname resolution fails, no socket descriptor has been      *)
(* created at any point of that call.                                      *)
(***************************************************************************)
C13_NoSocketBeforeResolution ==
  HasStep("resolve", FALSE) => (~HasStep("socket", TRUE) /\ sockfd < 0)

(***************************************************************************)
(* C14: within one call of get the steps resolve, connect, TLS handshake,  *)
(* send, accumulate and frame occur in that order, each at most once and   *)
(* none without all the steps before it, and a failed step is the last     *)
(* step executed.                                                          *)
(***************************************************************************)
GetStepOrder ==
  <<"resolve", "connect", "handshake", "send", "accumulate", "frame">>
IsGetStep(e) == \E k \in 1..Len(GetStepOrder) : e.step = GetStepOrder[k]
GetStepsTaken == SelectSeq(steps, IsGetStep)

C14_StepsInOrder ==
  /\ Len(GetStepsTaken) <= Len(GetStepOrder)
  /\ \A i \in 1..Len(GetStepsTaken) :
       GetStepsTaken[i].step = GetStepOrder[i]
  /\ \A i \in 1..(Len(steps) - 1) : steps[i].ok

(***************************************************************************)
(* C15: the name given to the resolver and the server name of the TLS      *)
(* handshake are the host the caller passed to get, the value written in   *)
(* the Host header of the request.                                         *)
(***************************************************************************)
C15_NamesAreCallerHost ==
  /\ resolved # NULL => Deref(resolved) = host
  /\ sni # NULL => Deref(sni) = host

(***************************************************************************)
(* C16: for every host and path, the bytes handed to SSL_write are exactly *)
(* "GET " path " HTTP/1.1" CRLF "Host: " host CRLF "Connection: close"     *)
(* CRLF CRLF, and the length passed is the length of that text.            *)
(***************************************************************************)
ExpectedRequest(p, h) ==
  <<"G", "E", "T", " ">> \o p \o <<" ", "H", "T", "T", "P", "/", "1", ".", "1", CR, LF, "H", "o", "s", "t", ":", " ">>
    \o h \o <<CR, LF, "C", "o", "n", "n", "e", "c", "t", "i", "o", "n", ":", " ", "c", "l", "o", "s", "e", CR, LF, CR, LF>>

SentBytes == SubSeq(Deref(sent).buf, 1, Deref(sent).num)

C16_RequestBytesExact ==
  sent # NULL =>
    /\ Deref(sent).num = request_len
    /\ Deref(sent).num = Len(ExpectedRequest(path, host))
    /\ SentBytes = ExpectedRequest(path, host)

(***************************************************************************)
(* C17: once SSL_write has returned, either it transmitted all request_len *)
(* bytes or get has failed with -1 without reading any response.           *)
(***************************************************************************)
C17_ShortWriteFails ==
  sent # NULL =>
    \/ send_request = request_len /\ send_request > 0
    \/ /\ pc = "returned" /\ ret = -1 /\ dest = NULL
       /\ nreads = 0 /\ respSt = "null" /\ extracted = NULL
       /\ ~HasStep("accumulate", TRUE) /\ ~HasStep("accumulate", FALSE)

(***************************************************************************)
(* C12: with get running on two threads that share the descriptor table,   *)
(* no call closes, reads or writes a descriptor that another call          *)
(* currently owns, whatever the interleaving and the outcome of each step. *)
(***************************************************************************)
C12_NoForeignDescriptorUse == misuse = {}

(***************************************************************************)
(* C20: list_filter leaves the items array a permutation of its previous   *)
(* content with every id still paired with its original name, ordered by   *)
(* non-increasing fuzzy score, so that every item matching the query       *)
(* precedes every item that does not match.                                *)
(* As stated, for every call (C20_FilterSortsByScore), this fails when the *)
(* malloc of the score array fails: list_filter returns at once and the    *)
(* array keeps its order.  It holds for the calls whose malloc succeeds,   *)
(* and the other calls leave the array as it was                           *)
(* (C20_FilterSortsWhenScored).                                            *)
(***************************************************************************)
Filtered == lpc = "filtered"
ScoreOf(item) == fuzzy_score(item.name, input)
Matches(item) == ScoreOf(item) # NEG_DBL_MAX
IsPermutationOfItems(after, before) ==
  /\ Len(after) = Len(before)
  /\ \E p \in Permutations(1..Len(before)) :
       after = [i \in 1..Len(before) |-> before[p[i]]]
OrderedByScore(list) ==
  /\ \A i, j \in 1..Len(list) : i < j => ScoreOf(list[i]) >= ScoreOf(list[j])
  /\ \A i, j \in 1..Len(list) :
       Matches(list[i]) /\ ~Matches(list[j]) => i < j

C18_QuitSetsSelectedMinusOne ==
  (lpc = "done" /\ ended = "quit") => selected = 0 - 1

(***************************************************************************)
(* C19: in every frame that listview presents, the currently selected item *)
(* is one of the rows drawn, after any sequence of navigation events.      *)
(***************************************************************************)
C19_SelectedRowDrawn ==
  frame # NULL => \E i \in 1..Len(Deref(frame)) : Deref(frame)[i].highlighted

(***************************************************************************)
(* C21: an empty query results in the original order: after any sequence   *)
(* of edits of the search input that ends with the empty string, the next  *)
(* list_filter call leaves the items in the order in which they were       *)
(* passed to listview.                                                     *)
(***************************************************************************)
C21_EmptyQueryOriginalOrder ==
  (lpc = "poll" /\ input = <<>>) => items = items0

(***************************************************************************)
(* C22: fuzzy_score matches case-insensitively: for every str and pattern  *)
(* over letters, fuzzy_score(str, pattern) is unchanged when the case of   *)
(* any letter of str or of pattern is changed, and it returns -DBL_MAX     *)
(* exactly when pattern is not a case-insensitive subsequence of str.      *)
(* Checked on the names and the query that list_filter scored.             *)
(***************************************************************************)
IsUpper(c) == Ord[c] >= Ord["A"] /\ Ord[c] <= Ord["Z"]
IsLower(c) == Ord[c] >= Ord["a"] /\ Ord[c] <= Ord["z"]
OverLetters(str) == \A i \in 1..Len(str) : IsUpper(str[i]) \/ IsLower(str[i])
UpperOf(c) == IF IsLower(c) THEN Printable[Ord[c] - 32 - 31] ELSE c
LowerOf(c) == IF IsUpper(c) THEN Printable[Ord[c] + 32 - 31] ELSE c
CaseVariants(str) ==
  {[i \in 1..Len(str) |-> IF i \in upper THEN UpperOf(str[i]) ELSE LowerOf(str[i])] :
     upper \in SUBSET (1..Len(str))}
RECURSIVE IsSubsequenceIgnoringCase(_, _)
IsSubsequenceIgnoringCase(pattern, str) ==
  IF pattern = <<>> THEN TRUE
  ELSE IF str = <<>> THEN FALSE
  ELSE IF LowerOf(Head(pattern)) = LowerOf(Head(str))
  THEN IsSubsequenceIgnoringCase(Tail(pattern), Tail(str))
  ELSE IsSubsequenceIgnoringCase(pattern, Tail(str))

C22_ScoreIgnoresCase ==
  Filtered =>
    \A i \in 1..Len(items0) :
      (OverLetters(items0[i].name) /\ OverLetters(input)) =>
        /\ \A str \in CaseVariants(items0[i].name), pattern \in CaseVariants(input) :
             fuzzy_score(str, pattern) = fuzzy_score(items0[i].name, input)
        /\ fuzzy_score(items0[i].name, input) = NEG_DBL_MAX
             <=> ~IsSubsequenceIgnoringCase(input, items0[i].name)

(***************************************************************************)
(* C23: get returns 0 only if the read loop ended because SSL_read         *)
(* returned 0 (end of stream); if SSL_read returns a negative value (I/O   *)
(* error) after some bytes were accumulated, get returns -1 and yields no  *)
(* response rather than framing the truncated data.                        *)
(***************************************************************************)
C23_ZeroOnlyAtEndOfStream ==
  /\ (pc = "returned" /\ ret = 0) => lastRv = 0
  /\ (pc = "returned" /\ lastRv < 0 /\ nreads > 0) =>
       (ret = 0 - 1 /\ dest = NULL)

(***************************************************************************)
(* C24: after every iteration of the read loop in get, total < capacity    *)
(* (hence the terminator written at index total is in bounds), and         *)
(* capacity never decreases from one iteration to the next.                *)
(***************************************************************************)
C24_TotalBelowCapacity ==
  /\ []((pc \in {"read", "extract"} /\ nreads > 0) => (total < capacity /\ ~oob))
  /\ [][capacity' >= capacity]_vars

(* C24: two full reads; the first took the total + rv + 1 branch *)
C24_Witness ==
  /\ pc = "read" /\ nreads = 2
  /\ total = 2 * CHUNK_SIZE /\ capacity = 2 * (CHUNK_SIZE + 1)

(***************************************************************************)
(* C25: a read whose bytes fit in the current capacity (total + rv <       *)
(* capacity) causes no reallocation and leaves capacity unchanged;         *)
(* capacity changes only when the next append would exceed it, so it stays *)
(* bounded by max(CHUNK_SIZE, 2 * (total + 1)) however many reads deliver  *)
(* the response.                                                           *)
(***************************************************************************)
C25_NoGrowthWhenFits ==
  /\ [][(pc = "read" /\ nreads' = nreads + 1 /\ total' < capacity)
          => capacity' = capacity]_vars
  /\ [](pc \in {"read", "extract"} =>
          capacity <= Max(CHUNK_SIZE, 2 * (total + 1)))

C28_NonPositiveSizeStops ==
  (FramerDone /\ FGiven.kind = "stop" /\ FRes.body # NULL) =>
    /\ FRes.chunked
    /\ ~FRes.overread /\ ~FRes.overwrite
    /\ Deref(FRes.body) = Concat(FGiven.chunks)
    /\ strchr(Deref(FRes.body), 1, NUL) = 0

(* C28: two chunks were copied, and a chunk stands behind the zero size *)
C28_Witness ==
  /\ FramerDone /\ FGiven.kind = "stop" /\ FRes.body # NULL
  /\ FGiven.chunks = <<LongChunk, <<"1">>>>
  /\ strstr(FRaw, <<"H", "e", "l", "l", "o">>) # 0
  /\ Deref(FRes.body) = LongChunk \o <<"1">>

(***************************************************************************)
(* C29: on every path through get_prayer_times, the failure paths of       *)
(* parse_json followed by get_prayer_times_free included, each heap block  *)
(* (request path, location, province, schedule array and its strings,      *)
(* response header and body) is handed to free at most once.               *)
(***************************************************************************)
C29_FreedAtMostOnce == \A b \in Blocks : frees[b] <= 1

(***************************************************************************)
(* C30: after any sequence of key and mouse events handled by              *)
(* default_motion or vim_motion, for every terminal height (those below 10 *)
(* rows included) and every item_count >= 1, current_index stays within    *)
(* 0..item_count - 1, and so does the index stored in *selected when the   *)
(* selection is confirmed.                                                 *)
(***************************************************************************)
C30_IndexInBounds ==
  lpc \in {"render", "poll", "done"} =>
    /\ current_index \in 0..(Len(items) - 1)
    /\ ended = "confirm" => selected \in 0..(Len(items) - 1)

(***************************************************************************)
(* C31: while listview is in VIM motion mode with the vim mode NORMAL, the *)
(* search input is empty every time list_filter runs (the top of each      *)
(* frame), so that the keys pressed in NORMAL mode are never a query that  *)
(* reorders the items.                                                     *)
(***************************************************************************)
RendersInNormal == lpc = "render" /\ current_mode = "VIM" /\ vmode = "NORMAL"
C31_NormalModeInputEmpty == RendersInNormal => input = <<>>

(***************************************************************************)
(* C34: in vim motion mode ESC always sets the mode to NORMAL and never    *)
(* quits; '/' and 'i' switch NORMAL to SEARCH and INSERT and return 2; j,  *)
(* k, g, G, Ctrl+U and Ctrl+D move the selection and q quits only while    *)
(* the mode is NORMAL; in INSERT or SEARCH mode none of these keys moves   *)
(* the selection, changes the mode or quits.                               *)
(***************************************************************************)
IsModalKey(ev) ==
  \/ ev.ch \in {"j", "k", "g", "G", "/", "i", "q"}
  \/ ev.key \in {"TB_KEY_CTRL_U", "TB_KEY_CTRL_D"}
NormalModeMotion(ev, m, item_count, index, visible_lines) ==
  /\ ev.ch = "/" =>
       m = [ended |-> "continue", mode |-> "SEARCH", current_index |-> index]
  /\ ev.ch = "i" =>
       m = [ended |-> "continue", mode |-> "INSERT", current_index |-> index]
  /\ ev.ch = "q" => m.ended = "quit"
  /\ (ev.ch = "j" /\ index < item_count - 1) => m.current_index = index + 1
  /\ (ev.ch = "k" /\ index > 0) => m.current_index = index - 1
  /\ ev.ch = "g" => m.current_index = 0
  /\ ev.ch = "G" => m.current_index = item_count - 1
  /\ (ev.key = "TB_KEY_CTRL_U" /\ visible_lines > 0) =>
       m.current_index = Max(0, index - visible_lines)
  /\ (ev.key = "TB_KEY_CTRL_D" /\ visible_lines > 0) =>
       m.current_index = Min(item_count - 1, index + visible_lines)
  /\ ev.ch \notin {"/", "i", "q"} => (m.mode = "NORMAL" /\ m.ended = "no")
VimMotionRespectsMode ==
  LET ev == Deref(term_ev)
      m == [ended |-> ended', mode |-> vmode', current_index |-> current_index']
  IN /\ (ev.type = "TB_EVENT_KEY" /\ ev.key = "TB_KEY_ESC") =>
          m = [ended |-> "no", mode |-> "NORMAL",
               current_index |-> current_index]
     /\ (IsModalKey(ev) /\ vmode = "NORMAL") =>
          NormalModeMotion(ev, m, Len(items), current_index, term_height' - 10)
     /\ (IsModalKey(ev) /\ vmode # "NORMAL") =>
          m = [ended |-> "no", mode |-> vmode, current_index |-> current_index]
HighlightedRows == {i \in 1..Len(Deref(frame)) : Deref(frame)[i].highlighted}
C35_SelectedIsHighlighted ==
  /\ [](ended = "confirm" =>
          \A i \in HighlightedRows :
            /\ selected \in 0..(Len(items) - 1)
            /\ items[selected + 1].name = Deref(frame)[i].name)
  /\ [][lpc = "poll" => items' = items]_vars

(***************************************************************************)
(* C32: on every path of get on which a TLS session was established, the   *)
(* session is shut down and freed strictly before its socket is closed,    *)
(* and the TLS context is freed only after the session; the socket is      *)
(* never closed while the session is still live.                           *)
(***************************************************************************)
SessionEstablished == HasStep("handshake", TRUE)
CallIndex(call) == {i \in 1..Len(teardown) : teardown[i] = call}
Precedes(first, second) ==
  \A j \in CallIndex(second) : \E i \in CallIndex(first) : i < j
C32_SessionFreedBeforeClose ==
  /\ ssl = "live" => (closes = 0 /\ CallIndex("close") = {} /\ ctx = "live")
  /\ SessionEstablished =>
       /\ Precedes("SSL_shutdown", "SSL_free")
       /\ Precedes("SSL_free", "close")
       /\ Precedes("SSL_free", "SSL_CTX_free")
  /\ (SessionEstablished /\ pc \in {"extract", "returned", "crashed"}) =>
       /\ ssl = "freed" /\ ctx = "freed" /\ closes = 1
       /\ teardown = <<"SSL_shutdown", "SSL_free", "SSL_CTX_free", "close">>
C32_Witness ==
  /\ pc = "returned" /\ ret = 0 /\ SessionEstablished
  /\ teardown = <<"SSL_shutdown", "SSL_free", "SSL_CTX_free", "close">>

(***************************************************************************)
(* C33: for every NUL-terminated raw body the chunked-decoding loop        *)
(* terminates: every iteration that does not stop the loop advances the    *)
(* read position by at least one byte towards the terminator, so the       *)
(* position never passes the terminator and the iterations number fewer    *)
(* than the bytes passed.                                                  *)
(***************************************************************************)
DecodeLoop == ChunkLoop(RawBody(FRaw), 1, <<>>, 0)
C33_ChunkLoopAdvances ==
  (FramerDone /\ FRes.chunked /\ FRes.body # NULL) =>
    /\ ~DecodeLoop.overread
    /\ DecodeLoop.p <= Len(RawBody(FRaw)) + 1
    /\ DecodeLoop.iters < DecodeLoop.p

=============================================================================
